---------------------------- MODULE Spec2Model ----------------------------
(***************************************************************************)
(* Model of the juscash decision pipeline: the policy rule engine          *)
(* (app/services/verify.py), the text segmenter (app/services/ingest.py)   *)
(* and the grounded-generation sanitizer (app/integrations/generator.py),  *)
(* with the /verify and /ingest/text handlers of app/main.py.              *)
(*                                                                         *)
(* A Python str is a sequence of characters; each character is one TLA+    *)
(* string.  A printable ASCII character is itself (the grave accent alone  *)
(* is "U+0060"); tab, line feed, form feed and carriage return are "\t",   *)
(* "\n", "\f", "\r".  A letter of Latin-1 is its base letter followed by a *)
(* sign for its mark: "_" grave ("a_"), "'" acute ("e'"), "^" circumflex   *)
(* ("e^"), "~" tilde ("a~"), ":" diaeresis ("u:"), "*" ring ("a*"), ","    *)
(* cedilla ("c,"); the others are "AE" "ae", "D-" "d-" (eth), "O/" "o/",   *)
(* "TH" "th" (thorn), "ss" (sharp s).  "--" is the en dash of "1-2         *)
(* frases", "---" the em dash, "->" the arrow of the policy texts.  Every  *)
(* other character is named by its code point: "U+000B" (vertical tab),    *)
(* "U+00A0" (no-break space), "U+2028" (line separator), "U+4E2D" (the     *)
(* ideograph zhong).  The tables below cover ASCII, Latin-1 and every      *)
(* white-space and line-breaking character of Unicode.  Of the characters  *)
(* beyond Latin-1 that \w of the re module matches (letters, digits and    *)
(* other numerals), the represented ones are the eight uncased letters at  *)
(* the end of WordChars, one of each of eight scripts; no other such       *)
(* character is represented, and neither is a character beyond Latin-1     *)
(* that str.lower() changes.                                               *)
(*                                                                         *)
(* A Python value of unknown type is a tagged record: [t |-> "none"],      *)
(* [t |-> "str", s |-> chars], [t |-> "num", n |-> Int],                   *)
(* [t |-> "bool", b |-> BOOLEAN], [t |-> "list", l |-> Seq],               *)
(* [t |-> "dict", d |-> sequence of <<key, value>> pairs]; a key missing   *)
(* from a payload is [t |-> "absent"].                                     *)
(***************************************************************************)
EXTENDS Integers, Sequences, FiniteSets, TLC

VARIABLES
    req,     \* the call being made: its kind and its arguments
    op,      \* name of the operation that has run ("none" while the call is pending)
    ret,     \* its outcome: what it returned, or the exception it raised
    store,   \* the vector-store collection: chunk id -> document text
    cache,   \* per memoized getter: the handle its lru_cache holds (0: none yet)
    calls,   \* per request thread: where its call of a memoized getter stands
    constructed,  \* per memoized getter: how many times its body has run
    tasks,   \* per request thread: the handler it runs and where that stands
    traffic  \* the requests other clients have yet to send that write the collection

vars == <<req, op, ret, store, cache, calls, constructed, tasks, traffic>>

----------------------------------------------------------------------------
(* Python str primitives *)

\* the characters str.isspace() holds for: what str.strip() removes and what
\* \s of the re module matches in a str pattern
WS ==
    {"\t", "\n", "U+000B", "\f", "\r", "U+001C", "U+001D", "U+001E", "U+001F", " ",
      "U+0085", "U+00A0", "U+1680", "U+2000", "U+2001", "U+2002", "U+2003", "U+2004",
      "U+2005", "U+2006", "U+2007", "U+2008", "U+2009", "U+200A", "U+2028", "U+2029",
      "U+202F", "U+205F", "U+3000"}

\* the characters float() strips from both ends of a str: the white space but
\* for the four separators U+001C..U+001F
FloatWS == WS \ {"U+001C", "U+001D", "U+001E", "U+001F"}

\* the characters at which str.splitlines() breaks a line ("\r\n" is one break)
LineBreaks ==
    {"\n", "U+000B", "\f", "\r", "U+001C", "U+001D", "U+001E", "U+0085", "U+2028",
      "U+2029"}

\* the letters of ASCII and Latin-1 that str.lower() changes, and what it
\* changes them to
UpperCase ==
    <<"A", "B", "C", "D", "E", "F", "G", "H", "I", "J", "K", "L", "M", "N", "O", "P",
      "Q", "R", "S", "T", "U", "V", "W", "X", "Y", "Z", "A_", "A'", "A^", "A~", "A:",
      "A*", "AE", "C,", "E_", "E'", "E^", "E:", "I_", "I'", "I^", "I:", "D-", "N~",
      "O_", "O'", "O^", "O~", "O:", "O/", "U_", "U'", "U^", "U:", "Y'", "TH">>

LowerCase ==
    <<"a", "b", "c", "d", "e", "f", "g", "h", "i", "j", "k", "l", "m", "n", "o", "p",
      "q", "r", "s", "t", "u", "v", "w", "x", "y", "z", "a_", "a'", "a^", "a~", "a:",
      "a*", "ae", "c,", "e_", "e'", "e^", "e:", "i_", "i'", "i^", "i:", "d-", "n~",
      "o_", "o'", "o^", "o~", "o:", "o/", "u_", "u'", "u^", "u:", "y'", "th">>

\* the characters \w of the re module matches in a str pattern: those of
\* ASCII and Latin-1, and the represented letters beyond Latin-1 (Hebrew alef,
\* Arabic alef, Devanagari a, Thai ko kai, Hiragana a, Katakana a, the
\* ideograph zhong, Hangul ga)
WordChars ==
    {"0", "1", "2", "3", "4", "5", "6", "7", "8", "9", "A", "B", "C", "D", "E", "F",
      "G", "H", "I", "J", "K", "L", "M", "N", "O", "P", "Q", "R", "S", "T", "U", "V",
      "W", "X", "Y", "Z", "_", "a", "b", "c", "d", "e", "f", "g", "h", "i", "j", "k",
      "l", "m", "n", "o", "p", "q", "r", "s", "t", "u", "v", "w", "x", "y", "z",
      "U+00AA", "U+00B2", "U+00B3", "U+00B5", "U+00B9", "U+00BA", "U+00BC", "U+00BD",
      "U+00BE", "A_", "A'", "A^", "A~", "A:", "A*", "AE", "C,", "E_", "E'", "E^", "E:",
      "I_", "I'", "I^", "I:", "D-", "N~", "O_", "O'", "O^", "O~", "O:", "O/", "U_",
      "U'", "U^", "U:", "Y'", "TH", "ss", "a_", "a'", "a^", "a~", "a:", "a*", "ae",
      "c,", "e_", "e'", "e^", "e:", "i_", "i'", "i^", "i:", "d-", "n~", "o_", "o'",
      "o^", "o~", "o:", "o/", "u_", "u'", "u^", "u:", "y'", "th", "y:", "U+05D0",
      "U+0627", "U+0905", "U+0E01", "U+3042", "U+30A2", "U+4E2D", "U+AC00"}

\* str.lower() on one character
LowerChar(c) ==
    IF \E k \in 1..Len(UpperCase) : UpperCase[k] = c
    THEN LowerCase[CHOOSE k \in 1..Len(UpperCase) : UpperCase[k] = c]
    ELSE c

\* str.lower()
Lower(s) == [i \in 1..Len(s) |-> LowerChar(s[i])]

\* s[i:] starts with p   (i is a 1-based position)
StartsWithAt(s, p, i) ==
    /\ i + Len(p) - 1 <= Len(s)
    /\ \A k \in 1..Len(p) : s[i + k - 1] = p[k]

\* s.startswith(p)
StartsWith(s, p) == StartsWithAt(s, p, 1)

\* p in s
Contains(s, p) == \E i \in 1..(Len(s) - Len(p) + 1) : StartsWithAt(s, p, i)

\* least element of a non-empty set of positions
Min(ps) == CHOOSE i \in ps : \A j \in ps : i <= j

\* the positions of ps in increasing order
Ascending(n, ps) ==
    LET In(i) == i \in ps IN SelectSeq([i \in 1..n |-> i], In)

\* s.find(p) as a 1-based position, 0 when p does not occur
Find(s, p) ==
    LET at == { i \in 1..(Len(s) - Len(p) + 1) : StartsWithAt(s, p, i) } IN
    IF at = {} THEN 0 ELSE Min(at)

\* first position >= i whose character is not in the set cs (Len(s)+1 if none)
RECURSIVE SkipChars(_, _, _)
SkipChars(s, cs, i) ==
    IF i > Len(s) \/ s[i] \notin cs THEN i ELSE SkipChars(s, cs, i + 1)

\* last position <= j whose character is not in the set cs (0 if none)
RECURSIVE SkipCharsBack(_, _, _)
SkipCharsBack(s, cs, j) ==
    IF j < 1 \/ s[j] \notin cs THEN j ELSE SkipCharsBack(s, cs, j - 1)

\* s.lstrip(cs), s.rstrip(cs), s.strip(cs)
LStripChars(s, cs) == SubSeq(s, SkipChars(s, cs, 1), Len(s))
RStripChars(s, cs) == SubSeq(s, 1, SkipCharsBack(s, cs, Len(s)))
StripChars(s, cs) == RStripChars(LStripChars(s, cs), cs)

\* s.lstrip(), s.strip()
LStrip(s) == LStripChars(s, WS)
Strip(s) == StripChars(s, WS)

\* s[:n] for n >= 0, and for n < 0 (all but the last -n characters)
Prefix(s, n) ==
    IF n >= 0 THEN SubSeq(s, 1, IF n < Len(s) THEN n ELSE Len(s))
    ELSE SubSeq(s, 1, Len(s) + n)

\* s[-n:] for n > 0
Suffix(s, n) == IF n >= Len(s) THEN s ELSE SubSeq(s, Len(s) - n + 1, Len(s))

\* s[i:] for a 0-based i >= 0
DropPrefix(s, i) == SubSeq(s, i + 1, Len(s))

\* sep.join(parts)
RECURSIVE Join(_, _)
Join(parts, sep) ==
    IF Len(parts) = 0 THEN <<>>
    ELSE IF Len(parts) = 1 THEN parts[1]
    ELSE parts[1] \o sep \o Join(Tail(parts), sep)

\* x in seq, for a list
InList(x, seq) == \E i \in 1..Len(seq) : seq[i] = x

\* F(x) with x computed first, as Python computes the right-hand side of an
\* assignment before the statements that read the variable
Then(x, F(_)) == CHOOSE y \in { F(v) : v \in {x} } : TRUE

----------------------------------------------------------------------------
(* Python values of a request payload *)

None == [t |-> "none"]
Absent == [t |-> "absent"]
Str(s) == [t |-> "str", s |-> s]
Num(n) == [t |-> "num", n |-> n]
\* an int beyond the range of Num, as its sign and decimal digits
BigInt(neg, digits) == [t |-> "bigint", neg |-> neg, digits |-> digits]
Bool(b) == [t |-> "bool", b |-> b]
List(l) == [t |-> "list", l |-> l]
Dict(d) == [t |-> "dict", d |-> d]

\* payload.get(key): a missing key reads as None
Get(payload, key) == IF payload[key].t = "absent" THEN None ELSE payload[key]

\* Python truth value, as used by `x or default` and bool(x)
Truthy(v) ==
    CASE v.t = "none" -> FALSE
      [] v.t = "str" -> Len(v.s) > 0
      [] v.t = "num" -> v.n # 0
      [] v.t = "bigint" -> TRUE
      [] v.t = "bool" -> v.b
      [] v.t = "list" -> Len(v.l) > 0
      [] v.t = "dict" -> Len(v.d) > 0

\* x or default
OrElse(v, default) == IF Truthy(v) THEN v ELSE default

\* d.get(key, default) on a dict
DictGet(v, key, default) ==
    IF \E i \in 1..Len(v.d) : v.d[i][1] = key
    THEN v.d[CHOOSE i \in 1..Len(v.d) : v.d[i][1] = key][2]
    ELSE default

Digits == <<"0", "1", "2", "3", "4", "5", "6", "7", "8", "9">>

DigitValue(c) == (CHOOSE k \in 1..10 : Digits[k] = c) - 1

IsDigit(c) == \E k \in 1..10 : Digits[k] = c

RECURSIVE DecimalValue(_)
DecimalValue(s) ==
    IF Len(s) = 0 THEN 0
    ELSE 10 * DecimalValue(SubSeq(s, 1, Len(s) - 1)) + DigitValue(s[Len(s)])

\* A float is written exactly, before any rounding to a double:
\*   [kind |-> "int", n |-> Int]       the value of a Python number or bool
\*   [kind |-> "nan"], [kind |-> "inf", neg |-> BOOLEAN]
\*   [kind |-> "dec", neg |-> BOOLEAN, digits |-> d, point |-> p]
\*       the value 0.d1 d2 d3 ... x 10^p, negated when neg; d has no leading
\*       zero and is empty for zero

\* the exponent after "e": an optional sign and one digit or more.  float()
\* reads an exponent of at most nine digits, leading zeros aside, exactly, and
\* a longer one as MAX_ABS_EXP, more than a text can make up for with digits
ExponentValue(e) ==
    LET MAX_ABS_EXP == 1100000000
        signed == Len(e) > 0 /\ e[1] \in {"+", "-"}
        d == IF signed THEN Tail(e) ELSE e
        z == LStripChars(d, {"0"})
        n == IF Len(z) > 9 THEN MAX_ABS_EXP ELSE DecimalValue(z)
    IN  IF Len(d) > 0 /\ (\A i \in 1..Len(d) : IsDigit(d[i]))
        THEN [ok |-> TRUE, n |-> IF signed /\ e[1] = "-" THEN 0 - n ELSE n]
        ELSE [ok |-> FALSE]

\* digits with at most one "." among them and at least one digit, then
\* optionally "e" or "E" and an exponent.  float() raises ValueError for more
\* than MAX_DIGITS digits after the leading zeros or after the point
ParseDecimal(neg, u) ==
    LET MAX_DIGITS == 1000000000
        es == { i \in 1..Len(u) : u[i] \in {"e", "E"} }
        m == IF es = {} THEN u ELSE SubSeq(u, 1, Min(es) - 1)
        e == IF es = {} THEN [ok |-> TRUE, n |-> 0]
             ELSE ExponentValue(SubSeq(u, Min(es) + 1, Len(u)))
        dots == { i \in 1..Len(m) : m[i] = "." }
        whole == IF dots = {} THEN m ELSE SubSeq(m, 1, Min(dots) - 1)
        frac == IF dots = {} THEN <<>> ELSE SubSeq(m, Min(dots) + 1, Len(m))
        all == whole \o frac
        d == LStripChars(all, {"0"})
    IN  IF /\ Cardinality(es) <= 1 /\ e.ok
           /\ Cardinality(dots) <= 1
           /\ Len(all) > 0 /\ (\A i \in 1..Len(all) : IsDigit(all[i]))
           /\ Len(d) <= MAX_DIGITS /\ Len(frac) <= MAX_DIGITS
        THEN [ok |-> TRUE,
              x |-> [kind |-> "dec", neg |-> neg, digits |-> RStripChars(d, {"0"}),
                     point |-> IF Len(d) = 0 THEN 0
                               ELSE e.n + (Len(whole) - (Len(all) - Len(d)))]]
        ELSE [ok |-> FALSE]

\* float(s) for a str: white space stripped, an optional sign, then inf,
\* infinity or nan in any case, or a decimal number whose digits may be
\* grouped by single underscores, each directly between two digits
ParseFloat(s) ==
    LET t == StripChars(s, FloatWS)
        signed == Len(t) > 0 /\ t[1] \in {"+", "-"}
        neg == signed /\ t[1] = "-"
        u == IF signed THEN Tail(t) ELSE t
        w == Lower(u)
        NoUnderscore(c) == c # "_"
        grouped == \A i \in 1..Len(u) :
                      u[i] = "_" => /\ i > 1 /\ IsDigit(u[i - 1])
                                    /\ i < Len(u) /\ IsDigit(u[i + 1])
    IN  IF w = <<"i", "n", "f">> \/ w = <<"i", "n", "f", "i", "n", "i", "t", "y">>
        THEN [ok |-> TRUE, x |-> [kind |-> "inf", neg |-> neg]]
        ELSE IF w = <<"n", "a", "n">> THEN [ok |-> TRUE, x |-> [kind |-> "nan"]]
        ELSE IF ~grouped THEN [ok |-> FALSE]
        ELSE ParseDecimal(neg, SelectSeq(u, NoUnderscore))

\* 2^1024 - 2^970, the midpoint between the largest double and 2^1024:
\* float(n) raises OverflowError for an int n of this magnitude or more
FLOAT_OVERFLOW ==
    <<"1", "7", "9", "7", "6", "9", "3", "1", "3", "4", "8", "6", "2", "3", "1", "5", "8",
      "0", "7", "9", "3", "7", "2", "8", "9", "7", "1", "4", "0", "5", "3", "0", "3", "4",
      "1", "5", "0", "7", "9", "9", "3", "4", "1", "3", "2", "7", "1", "0", "0", "3", "7",
      "8", "2", "6", "9", "3", "6", "1", "7", "3", "7", "7", "8", "9", "8", "0", "4", "4",
      "4", "9", "6", "8", "2", "9", "2", "7", "6", "4", "7", "5", "0", "9", "4", "6", "6",
      "4", "9", "0", "1", "7", "9", "7", "7", "5", "8", "7", "2", "0", "7", "0", "9", "6",
      "3", "3", "0", "2", "8", "6", "4", "1", "6", "6", "9", "2", "8", "8", "7", "9", "1",
      "0", "9", "4", "6", "5", "5", "5", "5", "4", "7", "8", "5", "1", "9", "4", "0", "4",
      "0", "2", "6", "3", "0", "6", "5", "7", "4", "8", "8", "6", "7", "1", "5", "0", "5",
      "8", "2", "0", "6", "8", "1", "9", "0", "8", "9", "0", "2", "0", "0", "0", "7", "0",
      "8", "3", "8", "3", "6", "7", "6", "2", "7", "3", "8", "5", "4", "8", "4", "5", "8",
      "1", "7", "7", "1", "1", "5", "3", "1", "7", "6", "4", "4", "7", "5", "7", "3", "0",
      "2", "7", "0", "0", "6", "9", "8", "5", "5", "5", "7", "1", "3", "6", "6", "9", "5",
      "9", "6", "2", "2", "8", "4", "2", "9", "1", "4", "8", "1", "9", "8", "6", "0", "8",
      "3", "4", "9", "3", "6", "4", "7", "5", "2", "9", "2", "7", "1", "9", "0", "7", "4",
      "1", "6", "8", "4", "4", "4", "3", "6", "5", "5", "1", "0", "7", "0", "4", "3", "4",
      "2", "7", "1", "1", "5", "5", "9", "6", "9", "9", "5", "0", "8", "0", "9", "3", "0",
      "4", "2", "8", "8", "0", "1", "7", "7", "9", "0", "4", "1", "7", "4", "4", "9", "7",
      "7", "9", "2">>

\* float(v): [ok |-> TRUE, x |-> the float] or [ok |-> FALSE] when float() raises
\* (ValueError for a str that is no number, TypeError for None, a list or a
\* dict, OverflowError for an int too large for a double)
ToFloat(v) ==
    LET Before(a, b) ==
            \/ Len(a) < Len(b)
            \/ /\ Len(a) = Len(b)
               /\ \E k \in 1..Len(a) :
                      /\ DigitValue(a[k]) < DigitValue(b[k])
                      /\ \A j \in 1..(k - 1) : a[j] = b[j]
    IN
    CASE v.t = "num" -> [ok |-> TRUE, x |-> [kind |-> "int", n |-> v.n]]
      [] v.t = "bigint" ->
            IF Before(v.digits, FLOAT_OVERFLOW)
            THEN [ok |-> TRUE, x |-> [kind |-> "dec", neg |-> v.neg,
                                      digits |-> v.digits, point |-> Len(v.digits)]]
            ELSE [ok |-> FALSE]
      [] v.t = "bool" -> [ok |-> TRUE, x |-> [kind |-> "int", n |-> IF v.b THEN 1 ELSE 0]]
      [] v.t = "str" -> ParseFloat(v.s)
      [] OTHER -> [ok |-> FALSE]

----------------------------------------------------------------------------
(* app/services/verify.py: the rule engine *)

MIN_VALOR == 1000

\* 1000 - 2^-44, the midpoint between the double 1000.0 and the double below
\* it, as the digits of 0.999... x 10^3: float() rounds a text below it to a
\* double below 1000.0, and a text at or above it to 1000.0 or more
MIN_VALOR_MIDPOINT ==
    <<"9", "9", "9", "9", "9", "9", "9", "9", "9", "9", "9", "9", "9", "9", "9", "9",
      "4", "3", "1", "5", "6", "5", "8", "1", "1", "3", "9", "1", "9", "1", "9", "8",
      "5", "1", "3", "0", "3", "1", "0", "0", "5", "8", "5", "9", "3", "7", "5">>

K_comprovante == "comprovante_transito"

\* The reason texts are opaque labels that no code inspects; they are written
\* here without their diacritics.

\* the loop of _dedupe: seen is the set of ids met so far, out the list built
RECURSIVE dedupe_loop(_, _, _, _)
dedupe_loop(seq, i, seen, out) ==
    IF i > Len(seq) THEN out
    ELSE IF seq[i] \notin seen
         THEN dedupe_loop(seq, i + 1, seen \cup {seq[i]}, Append(out, seq[i]))
         ELSE dedupe_loop(seq, i + 1, seen, out)

\* _dedupe without the `if x not in seen` test
dedupe_keep_all(seq) == seq

_dedupe(seq) == dedupe_loop(seq, 1, {}, <<>>)

\* (x or "").strip().lower(): AttributeError when x is truthy and not a str
NormStr(v) ==
    LET x == OrElse(v, Str(<<>>)) IN
    IF x.t = "str" THEN [ok |-> TRUE, s |-> Lower(Strip(x.s))] ELSE [ok |-> FALSE]

\* bool((docs or {}).get("comprovante_transito", False)):
\* AttributeError when docs is truthy and not a mapping
ComprovanteFlag(v) ==
    LET docs == OrElse(v, Dict(<<>>)) IN
    IF docs.t = "dict"
    THEN [ok |-> TRUE, b |-> Truthy(DictGet(docs, K_comprovante, Bool(FALSE)))]
    ELSE [ok |-> FALSE]

\* lines 36-38: the labor check
LaborStep(natureza) ==
    IF Contains(natureza, <<"t", "r", "a", "b", "a", "l", "h">>)
    THEN [c |-> <<"POL-4">>, r |-> <<"Credito de natureza trabalhista.">>]
    ELSE [c |-> <<>>, r |-> <<>>]

\* float(valor) < 1000, the comparison made on the double float() rounds to:
\* nan is below nothing, every negative value and zero are below, and
\* 0.d1 d2 ... x 10^3 is below when its digits come before the midpoint's
BelowMinValor(x) ==
    LET DigitAt(d, k) == IF k <= Len(d) THEN DigitValue(d[k]) ELSE 0
        FractionLess(a, b) ==
            \E k \in 1..(IF Len(a) > Len(b) THEN Len(a) ELSE Len(b)) :
                /\ DigitAt(a, k) < DigitAt(b, k)
                /\ \A j \in 1..(k - 1) : DigitAt(a, j) = DigitAt(b, j)
    IN  CASE x.kind = "int" -> x.n < MIN_VALOR
          [] x.kind = "nan" -> FALSE
          [] x.kind = "inf" -> x.neg
          [] x.kind = "dec" ->
                \/ x.neg
                \/ Len(x.digits) = 0
                \/ x.point < 3
                \/ x.point = 3 /\ FractionLess(x.digits, MIN_VALOR_MIDPOINT)

\* lines 40-46: the award value check; any exception of float() is caught
ValorStep(valor) ==
    IF valor.t = "none" THEN [c |-> <<>>, r |-> <<>>]
    ELSE LET f == ToFloat(valor) IN
         IF ~f.ok
         THEN [c |-> <<"POL-8">>, r |-> <<"Valor de condenacao invalido ou ausente.">>]
         ELSE IF BelowMinValor(f.x)
         THEN [c |-> <<"POL-3">>, r |-> <<"Valor de condenacao inferior a R$ 1.000,00.">>]
         ELSE [c |-> <<>>, r |-> <<>>]

\* transitado is False / transitado is None (identity with the singletons)
IsFalse(v) == v.t = "bool" /\ ~v.b
IsNone(v) == v.t = "none"

\* lines 48-53: the finality check
TransitoStep(transitado, tem_comprovante_transito) ==
    IF IsFalse(transitado) THEN [c |-> <<"POL-1">>, r |-> <<"Processo nao transitado em julgado.">>]
    ELSE IF IsNone(transitado) /\ ~tem_comprovante_transito
         THEN [c |-> <<"POL-8">>, r |-> <<"Falta comprovacao do transito em julgado (documento essencial).">>]
    ELSE [c |-> <<>>, r |-> <<>>]

\* lines 55-61: the phase check
FaseStep(fase) ==
    IF Len(fase) > 0
    THEN IF ~Contains(fase, <<"e", "x", "e", "c", "u">>)
         THEN [c |-> <<"POL-1">>, r |-> <<"Caso nao esta em fase de execucao.">>]
         ELSE [c |-> <<>>, r |-> <<>>]
    ELSE [c |-> <<"POL-8">>, r |-> <<"Fase processual nao informada.">>]

\* the decision precedence without the `transitado is False` test
Decide_from_citations_only(citations, transitado) ==
    IF \/ InList("POL-4", citations)
       \/ InList("POL-3", citations)
       \/ (InList("POL-1", citations) /\ ~InList("POL-8", citations))
    THEN "rejected"
    ELSE IF InList("POL-8", citations) THEN "incomplete"
    ELSE "approved"

\* lines 65-71: the decision precedence
Decide(citations, transitado) ==
    IF \/ InList("POL-4", citations)
       \/ InList("POL-3", citations)
       \/ IsFalse(transitado)
       \/ (InList("POL-1", citations) /\ ~InList("POL-8", citations))
    THEN "rejected"
    ELSE IF InList("POL-8", citations) THEN "incomplete"
    ELSE "approved"

\* the citations in the order the four checks append them, before _dedupe
RawCitations(natureza, valor, transitado, tem, fase) ==
    LaborStep(natureza).c \o ValorStep(valor).c
        \o TransitoStep(transitado, tem).c \o FaseStep(fase).c

apply_rules(payload) ==
    LET natureza == NormStr(Get(payload, "natureza"))
        valor == Get(payload, "valor_condenacao")
        transitado == Get(payload, "transitado_em_julgado")
        fase == NormStr(Get(payload, "fase"))
        tem == ComprovanteFlag(Get(payload, "docs"))
    IN  IF ~natureza.ok \/ ~fase.ok \/ ~tem.ok
        THEN [raised |-> TRUE, exc |-> "AttributeError"]
        ELSE LET citations ==
                     _dedupe(RawCitations(natureza.s, valor, transitado, tem.b, fase.s))
                 reasons ==
                     LaborStep(natureza.s).r \o ValorStep(valor).r
                         \o TransitoStep(transitado, tem.b).r \o FaseStep(fase.s).r
             IN  [raised |-> FALSE,
                  decision |-> Decide(citations, transitado),
                  citations |-> citations,
                  reasons |-> reasons]

----------------------------------------------------------------------------
(* app/integrations/generator.py: prompt construction and output cleaning *)

SYSTEM_PROMPT_PT ==
    <<"V", "o", "c", "e^", " ", "r", "e", "s", "p", "o", "n", "d", "e", " ", "e", "m", " ",
      "p", "o", "r", "t", "u", "g", "u", "e^", "s", ",", " ", "d", "e", " ", "f", "o", "r",
      "m", "a", " ", "c", "o", "n", "c", "i", "s", "a", " ", "e", " ", "o", "b", "j", "e",
      "t", "i", "v", "a", ".", "\n", "U", "s", "e", " ", "S", "O", "M", "E", "N", "T", "E",
      " ", "o", " ", "C", "O", "N", "T", "E", "X", "T", "O", " ", "f", "o", "r", "n", "e",
      "c", "i", "d", "o", ".", " ", "S", "e", " ", "a", " ", "r", "e", "s", "p", "o", "s",
      "t", "a", " ", "n", "a~", "o", " ", "e", "s", "t", "i", "v", "e", "r", " ", "n", "o",
      " ", "c", "o", "n", "t", "e", "x", "t", "o", ",", " ", "d", "i", "g", "a", ":", " ",
      "'", "N", "a~", "o", " ", "e", "n", "c", "o", "n", "t", "r", "e", "i", " ", "n", "o",
      " ", "c", "o", "n", "t", "e", "x", "t", "o", "'", ".", " ", "N", "A~", "O", " ", "r",
      "e", "p", "i", "t", "a", " ", "a", " ", "p", "e", "r", "g", "u", "n", "t", "a", ".",
      " ", "R", "e", "s", "p", "o", "n", "d", "a", " ", "e", "m", " ", "1", "--", "2", " ",
      "f", "r", "a", "s", "e", "s", ".">>

\* any(k in name.lower() for k in ["t5", "bart", "mbart", "pegasus"])
_is_seq2seq_name(name) ==
    LET n == Lower(name) IN
    \/ Contains(n, <<"t", "5">>)
    \/ Contains(n, <<"b", "a", "r", "t">>)
    \/ Contains(n, <<"m", "b", "a", "r", "t">>)
    \/ Contains(n, <<"p", "e", "g", "a", "s", "u", "s">>)

_build_inputs(context, question, is_seq2seq) ==
    IF is_seq2seq
    THEN <<"C", "o", "n", "t", "e", "x", "t", "o", ":", "\n">> \o context \o <<"\n", "\n">>
         \o <<"P", "e", "r", "g", "u", "n", "t", "a", ":", " ">> \o question \o <<"\n">>
         \o <<"R", "e", "s", "p", "o", "n", "d", "a", " ", "e", "m", " ", "1", "--", "2", " ", "f",
      "r", "a", "s", "e", "s", ",", " ", "u", "s", "a", "n", "d", "o", " ", "a", "p", "e",
      "n", "a", "s", " ", "o", " ", "c", "o", "n", "t", "e", "x", "t", "o", " ", "a", "c",
      "i", "m", "a", ":">>
    ELSE SYSTEM_PROMPT_PT \o <<"\n", "\n">>
         \o <<"#", "#", "#", " ", "C", "O", "N", "T", "E", "X", "T", "O", "\n">> \o context \o <<"\n", "\n">>
         \o <<"#", "#", "#", " ", "P", "E", "R", "G", "U", "N", "T", "A", "\n">> \o question \o <<"\n", "\n">>
         \o <<"#", "#", "#", " ", "R", "E", "S", "P", "O", "S", "T", "A", "\n">>

SentenceEnd == {".", "!", "?"}

\* re.split(r"(?<=[\.\!\?])\s+", s): cut at every whitespace run that follows
\* a terminal punctuation mark.  cuts lists where those runs start; part k
\* runs from the end of run k-1 to the start of run k
SplitSentenceEnds(s) ==
    LET cuts == Ascending(Len(s),
                    { i \in 2..Len(s) : s[i] \in WS /\ s[i - 1] \in SentenceEnd })
        from(k) == IF k = 1 THEN 1 ELSE SkipChars(s, WS, cuts[k - 1])
        to(k) == IF k > Len(cuts) THEN Len(s) ELSE cuts[k] - 1
    IN  [k \in 1..(Len(cuts) + 1) |-> SubSeq(s, from(k), to(k))]

FIRST_SENTENCE_MIN == 15
FIRST_SENTENCE_CUT == 240

\* the for loop of _first_sentence: the first part whose strip() has >= 15
\* characters, else t[:240].strip()
RECURSIVE first_long_part(_, _, _)
first_long_part(parts, k, t) ==
    IF k > Len(parts) THEN Strip(Prefix(t, FIRST_SENTENCE_CUT))
    ELSE IF Len(Strip(parts[k])) >= FIRST_SENTENCE_MIN THEN Strip(parts[k])
    ELSE first_long_part(parts, k + 1, t)

\* the first part whatever its length
first_sentence_any_length(text) ==
    IF Len(Strip(text)) = 0 THEN <<>> ELSE Strip(SplitSentenceEnds(Strip(text))[1])

_first_sentence(text) ==
    Then(Strip(text), LAMBDA t :
        IF Len(t) = 0 THEN <<>>
        ELSE Then(SplitSentenceEnds(t), LAMBDA parts : first_long_part(parts, 1, t)))

EchoPatterns ==
    << <<"v", "o", "c", "e^", " ", "r", "e", "s", "p", "o", "n", "d", "e", " ", "e", "m", " ",
      "p", "o", "r", "t", "u", "g", "u", "e^", "s">>,
       <<"u", "s", "e", " ", "s", "o", "m", "e", "n", "t", "e", " ", "o", " ", "c", "o", "n",
      "t", "e", "x", "t", "o">>,
       <<"r", "e", "s", "p", "o", "n", "d", "a", " ", "e", "m", " ", "1", "--", "2", " ", "f",
      "r", "a", "s", "e", "s">>,
       <<"#", "#", "#", " ", "c", "o", "n", "t", "e", "x", "t", "o">>,
       <<"#", "#", "#", " ", "r", "e", "s", "p", "o", "s", "t", "a">>,
       <<"r", "e", "s", "p", "o", "s", "t", "a", ":">>,
       <<"a", "n", "s", "w", "e", "r", ":">>,
       <<"c", "o", "n", "t", "e", "x", "t", "o", ":">>,
       <<"p", "e", "r", "g", "u", "n", "t", "a", ":">> >>

\* some leaked-instruction substring occurs in ans, case-insensitively
HasEchoPattern(ans) ==
    LET a == Lower(ans) IN \E k \in 1..Len(EchoPatterns) : Contains(a, EchoPatterns[k])

_looks_like_echo(ans) == Len(ans) = 0 \/ HasEchoPattern(ans)

\* str.splitlines().  ends lists where the line breaks start; a text that
\* stops at a line break has no last empty line
SplitLines(s) ==
    LET ends == Ascending(Len(s),
                    { i \in 1..Len(s) :
                        /\ s[i] \in LineBreaks
                        /\ ~(s[i] = "\n" /\ i > 1 /\ s[i - 1] = "\r") })
        after(i) == IF s[i] = "\r" /\ i < Len(s) /\ s[i + 1] = "\n" THEN i + 2 ELSE i + 1
        from(k) == IF k = 1 THEN 1 ELSE after(ends[k - 1])
        to(k) == IF k > Len(ends) THEN Len(s) ELSE ends[k] - 1
        n == IF from(Len(ends) + 1) <= Len(s) THEN Len(ends) + 1 ELSE Len(ends)
    IN  [k \in 1..n |-> SubSeq(s, from(k), to(k))]

\* re.match(r'^(contexto|pergunta|resposta|###\s*resposta|###\s*contexto)\s*:?', ln, re.I):
\* the optional tail always matches, so the alternation decides
IsLabelLine(ln) ==
    LET l == Lower(ln)
        h == SkipChars(l, WS, 4)
    IN  \/ StartsWith(l, <<"c", "o", "n", "t", "e", "x", "t", "o">>)
        \/ StartsWith(l, <<"p", "e", "r", "g", "u", "n", "t", "a">>)
        \/ StartsWith(l, <<"r", "e", "s", "p", "o", "s", "t", "a">>)
        \/ /\ StartsWith(l, <<"#", "#", "#">>)
           /\ (StartsWithAt(l, <<"r", "e", "s", "p", "o", "s", "t", "a">>, h) \/ StartsWithAt(l, <<"c", "o", "n", "t", "e", "x", "t", "o">>, h))

\* r"responda\s+em\s+1.?<en dash>.?2\s+frases" matched at position i of a lowered line;
\* each ".?" takes zero or one character that is not a line feed
DirectiveAt(l, i) ==
    /\ StartsWithAt(l, <<"r", "e", "s", "p", "o", "n", "d", "a">>, i)
    /\ LET a == i + 8
           b == SkipChars(l, WS, a)
       IN  /\ b > a
           /\ StartsWithAt(l, <<"e", "m">>, b)
           /\ LET c == b + 2
                  d == SkipChars(l, WS, c)
              IN  /\ d > c
                  /\ StartsWithAt(l, <<"1">>, d)
                  /\ \E x \in {0, 1}, y \in {0, 1} :
                        LET e == d + 1 + x
                            f == e + 1 + y
                            g == f + 1
                            h == SkipChars(l, WS, g)
                        IN  /\ (x = 1 => d + 1 <= Len(l) /\ l[d + 1] # "\n")
                            /\ (y = 1 => e + 1 <= Len(l) /\ l[e + 1] # "\n")
                            /\ StartsWithAt(l, <<"--">>, e)
                            /\ StartsWithAt(l, <<"2">>, f)
                            /\ h > g
                            /\ StartsWithAt(l, <<"f", "r", "a", "s", "e", "s">>, h)

RestatesDirective(ln) ==
    LET l == Lower(ln) IN
    \/ \E i \in 1..Len(l) : DirectiveAt(l, i)
    \/ Contains(l, <<"v", "o", "c", "e^", " ", "r", "e", "s", "p", "o", "n", "d", "e", " ", "e", "m", " ",
      "p", "o", "r", "t", "u", "g", "u", "e^", "s">>)

\* the for loop over lines: keep the lines that are neither labels nor directives
keep_lines(lines) ==
    LET Kept(ln) == ~(IsLabelLine(Strip(ln)) \/ RestatesDirective(Strip(ln))) IN
    SelectSeq(lines, Kept)

\* end (exclusive) of a match of r"(Contexto|Pergunta|Resposta)\s*:\s*" that
\* starts at position i of s, 0 when there is none; l is s lowered
LabelEnd(s, l, i) ==
    IF \/ StartsWithAt(l, <<"c", "o", "n", "t", "e", "x", "t", "o">>, i)
       \/ StartsWithAt(l, <<"p", "e", "r", "g", "u", "n", "t", "a">>, i)
       \/ StartsWithAt(l, <<"r", "e", "s", "p", "o", "s", "t", "a">>, i)
    THEN LET j == SkipChars(s, WS, i + 8) IN
         IF j <= Len(s) /\ s[j] = ":" THEN SkipChars(s, WS, j + 1) ELSE 0
    ELSE 0

\* re.sub(r"(Contexto|Pergunta|Resposta)\s*:\s*", "", s, flags=re.I) from
\* position i on: the leftmost match is removed, the scan resumes after it
RECURSIVE remove_labels(_, _, _)
remove_labels(s, l, i) ==
    LET at == { k \in i..Len(s) : LabelEnd(s, l, k) > 0 } IN
    IF at = {} THEN SubSeq(s, i, Len(s))
    ELSE SubSeq(s, i, Min(at) - 1) \o remove_labels(s, l, LabelEnd(s, l, Min(at)))

_strip_prompt_labels(text) ==
    IF Len(text) = 0 THEN text
    ELSE Then(Strip(Join(keep_lines(SplitLines(text)), <<"\n">>)), LAMBDA out :
              Strip(remove_labels(out, Lower(out), 1)))

AnswerSeparators ==
    << <<"\n", "#", "#", "#">>, <<"\n", "\n", "#", "#", "#">>, <<"\n", "\n">>, <<"\n", "R", "E", "S", "P", "O", "S", "T", "A", ":">>, <<"\n", "R", "e", "s", "p", "o", "s", "t", "a", ":">>, <<"\n", "#">> >>

\* for sep in [...]: if sep in text: text = text.split(sep, 1)[0]
RECURSIVE cut_at_separators(_, _)
cut_at_separators(text, k) ==
    IF k > Len(AnswerSeparators) THEN text
    ELSE LET at == Find(text, AnswerSeparators[k]) IN
         Then(IF at > 0 THEN SubSeq(text, 1, at - 1) ELSE text,
              LAMBDA cut : cut_at_separators(cut, k + 1))

AnswerLabels ==
    << <<"r", "e", "s", "p", "o", "s", "t", "a", ":">>, <<"#", "#", "#", " ", "r", "e", "s", "p", "o", "s", "t", "a">>, <<"#", "#", "#", "r", "e", "s", "p", "o", "s", "t", "a">>, <<"a", "n", "s", "w", "e", "r", ":">>, <<"#", "#", "#", " ", "a", "n", "s", "w", "e", "r">> >>

\* for p in [...]: if t.lower().startswith(p): t = t[len(p):].lstrip()
RECURSIVE strip_answer_labels(_, _)
strip_answer_labels(t, k) ==
    IF k > Len(AnswerLabels) THEN t
    ELSE Then(IF StartsWith(Lower(t), AnswerLabels[k])
              THEN LStrip(DropPrefix(t, Len(AnswerLabels[k])))
              ELSE t,
              LAMBDA rest : strip_answer_labels(rest, k + 1))

\* one pass of the `for _ in range(3)` loop of _clean_answer
echo_pass(text, question) ==
    Then(strip_answer_labels(LStrip(text), 1), LAMBDA t :
        LET lower_q == Lower(Strip(question)) IN
        IF StartsWith(Lower(t), lower_q)
        THEN LStrip(LStripChars(DropPrefix(t, Len(question)), {":", " ", ".", "-"}))
        ELSE t)

\* re.sub(r"\s{2,}", " ", s): a run of two or more whitespace characters
\* becomes one space at the place of its first character
collapse_ws(s) ==
    LET first == Ascending(Len(s),
                     { i \in 1..Len(s) : s[i] \notin WS \/ i = 1 \/ s[i - 1] \notin WS })
        run(i) == s[i] \in WS /\ i < Len(s) /\ s[i + 1] \in WS
    IN  [k \in 1..Len(first) |-> IF run(first[k]) THEN " " ELSE s[first[k]]]

\* \w of the re module
IsWordChar(c) == c \in WordChars

\* end (exclusive) of a match of r"\bR{2,}AG\b" (re.I) starting at i, 0 if none
RagEnd(s, l, i) ==
    LET j == SkipChars(l, {"r"}, i) IN
    IF /\ (i = 1 \/ ~IsWordChar(s[i - 1]))
       /\ j - i >= 2
       /\ StartsWithAt(l, <<"a", "g">>, j)
       /\ (j + 2 > Len(s) \/ ~IsWordChar(s[j + 2]))
    THEN j + 2
    ELSE 0

\* re.sub(r"\bR{2,}AG\b", "RAG", s, flags=re.I) from position i on
RECURSIVE fix_rag(_, _, _)
fix_rag(s, l, i) ==
    LET at == { k \in i..Len(s) : RagEnd(s, l, k) > 0 } IN
    IF at = {} THEN SubSeq(s, i, Len(s))
    ELSE SubSeq(s, i, Min(at) - 1) \o <<"R", "A", "G">> \o fix_rag(s, l, RagEnd(s, l, Min(at)))

_clean_answer(question, prompt, decoded) ==
    Then(IF Len(prompt) > 0 /\ StartsWith(decoded, prompt)
         THEN DropPrefix(decoded, Len(prompt))
         ELSE decoded, LAMBDA t0 :
    Then(cut_at_separators(t0, 1), LAMBDA t1 :
    Then(_strip_prompt_labels(t1), LAMBDA t2 :
    Then(echo_pass(t2, question), LAMBDA p1 :
    Then(echo_pass(p1, question), LAMBDA p2 :
    Then(echo_pass(p2, question), LAMBDA t3 :
    Then(StripChars(t3, {" ", "\"", "'"}), LAMBDA t4 :
    Then(collapse_ws(t4), LAMBDA t5 :
    Then(fix_rag(t5, Lower(t5), 1), LAMBDA t6 :
    Strip(t6))))))))))

----------------------------------------------------------------------------
(* app/integrations/generator.py: the backend call and generate_answer *)

\* What the language-model backend does with a prompt.  [kind |-> "text"]
\* replies with the text s; "echo" replies with the prompt itself; "echo_then"
\* with the prompt followed by s (a causal model decodes prompt and
\* continuation); "error" raises exc (status is the HTTP status of the
\* HfHubHTTPError response, 0 when the error carries no response).
Decoded(llm, prompt) ==
    CASE llm.kind = "text" -> llm.s
      [] llm.kind = "echo" -> prompt
      [] llm.kind = "echo_then" -> prompt \o llm.s

HTTP_FALLBACK_STATUS == 500

\* _generate_hf: HfHubHTTPError becomes an HTTPException, anything else propagates
_generate_hf(prompt, question, llm) ==
    IF llm.kind = "error"
    THEN IF llm.exc = "HfHubHTTPError"
         THEN [raised |-> TRUE, exc |-> "HTTPException",
               status |-> IF llm.status # 0 THEN llm.status ELSE HTTP_FALLBACK_STATUS]
         ELSE [raised |-> TRUE, exc |-> llm.exc, status |-> 0]
    ELSE [raised |-> FALSE, s |-> _clean_answer(question, prompt, Decoded(llm, prompt))]

\* _generate_local_t2t and _generate_local_causal: tokenize, generate, decode,
\* clean; an exception of the model propagates unchanged
_generate_local(prompt, question, llm) ==
    IF llm.kind = "error"
    THEN [raised |-> TRUE, exc |-> llm.exc, status |-> 0]
    ELSE [raised |-> FALSE, s |-> _clean_answer(question, prompt, Decoded(llm, prompt))]

\* [c.strip() for c in context_chunks if c and c.strip()]
RECURSIVE usable_chunks(_, _)
usable_chunks(context_chunks, k) ==
    IF k > Len(context_chunks) THEN <<>>
    ELSE IF Len(Strip(context_chunks[k])) > 0
         THEN <<Strip(context_chunks[k])>> \o usable_chunks(context_chunks, k + 1)
         ELSE usable_chunks(context_chunks, k + 1)

MAX_CONTEXT_CHUNKS == 5
MIN_ANSWER_LEN == 5

NOT_FOUND == <<"N", "a~", "o", " ", "e", "n", "c", "o", "n", "t", "r", "e", "i", " ", "n", "o", " ",
      "c", "o", "n", "t", "e", "x", "t", "o", ".">>

\* the fallback without the `or "Nao encontrei no contexto."` default
Fallback_without_literal(chunks) ==
    _first_sentence(IF Len(chunks) > 0 THEN chunks[1] ELSE <<>>)

\* lines 206-208: the extractive fallback
Fallback(chunks) ==
    LET fallback == _first_sentence(IF Len(chunks) > 0 THEN chunks[1] ELSE <<>>) IN
    IF Len(fallback) > 0 THEN fallback ELSE NOT_FOUND

\* lines 195-198: the prompt built from the usable chunks.
\* settings is [backend |-> LLM_BACKEND (a str or None), model |-> LLM_MODEL]
PromptOf(chunks, question, settings) ==
    Then(Join(SubSeq(chunks, 1, IF Len(chunks) < MAX_CONTEXT_CHUNKS
                                THEN Len(chunks) ELSE MAX_CONTEXT_CHUNKS),
              <<"\n", "\n", "-", "-", "-", "\n", "\n">>), LAMBDA context :
         _build_inputs(context, question, _is_seq2seq_name(settings.model)))

generate_answer(context_chunks, question, settings, llm) ==
    Then(usable_chunks(context_chunks, 1), LAMBDA chunks :
    Then(PromptOf(chunks, question, settings), LAMBDA prompt :
    Then(IF Lower(OrElse(settings.backend, Str(<<"l", "o", "c", "a", "l">>)).s) = <<"h", "f">>
         THEN _generate_hf(prompt, question, llm)
         ELSE _generate_local(prompt, question, llm), LAMBDA ans :
    IF ans.raised
    THEN [raised |-> TRUE, exc |-> ans.exc, status |-> ans.status, llm_calls |-> 1]
    ELSE IF _looks_like_echo(ans.s) \/ Len(ans.s) < MIN_ANSWER_LEN
         THEN [raised |-> FALSE, text |-> Fallback(chunks), llm_calls |-> 1]
         ELSE [raised |-> FALSE, text |-> ans.s, llm_calls |-> 1])))

----------------------------------------------------------------------------
(* app/data/policy.py and the rationale of app/services/verify.py *)

POLICY_RULES ==
    << [id |-> "POL-1", text |-> <<"S", "o'", " ", "c", "o", "m", "p", "r", "a", "m", "o", "s", " ", "c", "r", "e'",
      "d", "i", "t", "o", " ", "d", "e", " ", "p", "r", "o", "c", "e", "s", "s", "o", "s",
      " ", "t", "r", "a", "n", "s", "i", "t", "a", "d", "o", "s", " ", "e", "m", " ", "j",
      "u", "l", "g", "a", "d", "o", " ", "e", " ", "e", "m", " ", "f", "a", "s", "e", " ",
      "d", "e", " ", "e", "x", "e", "c", "u", "c,", "a~", "o", ".">>],
       [id |-> "POL-2", text |-> <<"E", "x", "i", "g", "i", "r", " ", "v", "a", "l", "o", "r", " ", "d", "e", " ", "c",
      "o", "n", "d", "e", "n", "a", "c,", "a~", "o", " ", "i", "n", "f", "o", "r", "m",
      "a", "d", "o", ".">>],
       [id |-> "POL-3", text |-> <<"V", "a", "l", "o", "r", " ", "d", "e", " ", "c", "o", "n", "d", "e", "n", "a", "c,",
      "a~", "o", " ", "i", "n", "f", "e", "r", "i", "o", "r", " ", "a", " ", "R", "$", " ",
      "1", ".", "0", "0", "0", ",", "0", "0", " ", "->", " ", "n", "a~", "o", " ", "c",
      "o", "m", "p", "r", "a", ".">>],
       [id |-> "POL-4", text |-> <<"C", "o", "n", "d", "e", "n", "a", "c,", "o~", "e", "s", " ", "n", "a", " ", "e",
      "s", "f", "e", "r", "a", " ", "t", "r", "a", "b", "a", "l", "h", "i", "s", "t", "a",
      " ", "->", " ", "n", "a~", "o", " ", "c", "o", "m", "p", "r", "a", ".">>],
       [id |-> "POL-5", text |-> <<"O'", "b", "i", "t", "o", " ", "d", "o", " ", "a", "u", "t", "o", "r", " ", "s", "e",
      "m", " ", "h", "a", "b", "i", "l", "i", "t", "a", "c,", "a~", "o", " ", "n", "o",
      " ", "i", "n", "v", "e", "n", "t", "a'", "r", "i", "o", " ", "->", " ", "n", "a~",
      "o", " ", "c", "o", "m", "p", "r", "a", ".">>],
       [id |-> "POL-6", text |-> <<"S", "u", "b", "s", "t", "a", "b", "e", "l", "e", "c", "i", "m", "e", "n", "t", "o",
      " ", "s", "e", "m", " ", "r", "e", "s", "e", "r", "v", "a", " ", "d", "e", " ", "p",
      "o", "d", "e", "r", "e", "s", " ", "->", " ", "n", "a~", "o", " ", "c", "o", "m",
      "p", "r", "a", ".">>],
       [id |-> "POL-7", text |-> <<"I", "n", "f", "o", "r", "m", "a", "r", " ", "h", "o", "n", "o", "r", "a'", "r", "i",
      "o", "s", " ", "c", "o", "n", "t", "r", "a", "t", "u", "a", "i", "s", ",", " ", "p",
      "e", "r", "i", "c", "i", "a", "i", "s", " ", "e", " ", "s", "u", "c", "u", "m", "b",
      "e", "n", "c", "i", "a", "i", "s", " ", "q", "u", "a", "n", "d", "o", " ", "e", "x",
      "i", "s", "t", "i", "r", "e", "m", ".">>],
       [id |-> "POL-8", text |-> <<"S", "e", " ", "f", "a", "l", "t", "a", "r", " ", "d", "o", "c", "u", "m", "e", "n",
      "t", "o", " ", "e", "s", "s", "e", "n", "c", "i", "a", "l", " ", "(", "e", "x", ".",
      ":", " ", "t", "r", "a^", "n", "s", "i", "t", "o", " ", "e", "m", " ", "j", "u", "l",
      "g", "a", "d", "o", " ", "n", "a~", "o", " ", "c", "o", "m", "p", "r", "o", "v", "a",
      "d", "o", ")", " ", "->", " ", "m", "a", "r", "c", "a", "r", " ", "c", "o", "m", "o",
      " ", "i", "n", "c", "o", "m", "p", "l", "e", "t", "e", ".">>] >>

\* c in RULE_MAP, RULE_MAP[c]
InRuleMap(c) == \E k \in 1..Len(POLICY_RULES) : POLICY_RULES[k].id = c
RULE_MAP(c) == POLICY_RULES[CHOOSE k \in 1..Len(POLICY_RULES) : POLICY_RULES[k].id = c].text

APPROVED_RATIONALE ==
    <<"A", "p", "r", "o", "v", "a", "d", "o", ":", " ", "a", "t", "e", "n", "d", "e", " ",
      "a_", "s", " ", "r", "e", "g", "r", "a", "s", " ", "---", " ", "t", "r", "a^", "n",
      "s", "i", "t", "o", " ", "e", "m", " ", "j", "u", "l", "g", "a", "d", "o", " ", "c",
      "o", "m", "p", "r", "o", "v", "a", "d", "o", ",", " ", "f", "a", "s", "e", " ", "d",
      "e", " ", "e", "x", "e", "c", "u", "c,", "a~", "o", " ", "e", " ", "v", "a", "l",
      "o", "r", " ", "m", "i'", "n", "i", "m", "o", ",", " ", "s", "e", "m", " ", "i", "m",
      "p", "e", "d", "i", "m", "e", "n", "t", "o", "s", " ", "(", "e", "x", ".", ":", " ",
      "t", "r", "a", "b", "a", "l", "h", "i", "s", "t", "a", ")", ".">>

DEFAULT_CHUNK == <<"A", "v", "a", "l", "i", "a", "r", " ", "c", "o", "n", "f", "o", "r", "m", "e", " ",
      "a", "s", " ", "p", "o", "l", "i'", "t", "i", "c", "a", "s", " ", "i", "n", "t", "e",
      "r", "n", "a", "s", " ", "a", "p", "l", "i", "c", "a'", "v", "e", "i", "s", ".">>

\* the decision literal as characters, for str.format
DecisionChars(d) ==
    CASE d = "approved" -> <<"a", "p", "p", "r", "o", "v", "e", "d">>
      [] d = "rejected" -> <<"r", "e", "j", "e", "c", "t", "e", "d">>
      [] d = "incomplete" -> <<"i", "n", "c", "o", "m", "p", "l", "e", "t", "e">>

RationaleQuestion(decision) ==
    <<"D", "e", "c", "i", "s", "a~", "o", ":", " ">> \o DecisionChars(decision)
        \o <<".", " ", "E", "x", "p", "l", "i", "q", "u", "e", " ", "e", "m", " ", "1", "--", "2",
      " ", "f", "r", "a", "s", "e", "s", " ", "o", " ", "p", "o", "r", "q", "u", "e^", ",",
      " ", "c", "i", "t", "a", "n", "d", "o", " ", "o", "s", " ", "c", "o'", "d", "i", "g",
      "o", "s", " ", "d", "a", "s", " ", "r", "e", "g", "r", "a", "s", " ", "(", "e", "x",
      ".", ":", " ", "P", "O", "L", "-", "3", ",", " ", "P", "O", "L", "-", "4", ")", ".">>

\* [RULE_MAP[c] for c in citations if c in RULE_MAP]
RECURSIVE rule_texts(_, _)
rule_texts(citations, k) ==
    IF k > Len(citations) THEN <<>>
    ELSE IF InRuleMap(citations[k])
         THEN <<RULE_MAP(citations[k])>> \o rule_texts(citations, k + 1)
         ELSE rule_texts(citations, k + 1)

\* build_rationale without the early return for "approved"
build_rationale_always_generates(decision, citations, settings, llm) ==
    LET found == rule_texts(citations, 1)
        chunks == IF Len(found) = 0 THEN <<DEFAULT_CHUNK>> ELSE found
    IN  generate_answer(chunks, RationaleQuestion(decision), settings, llm)

build_rationale(decision, citations, settings, llm) ==
    IF decision = "approved"
    THEN [raised |-> FALSE, text |-> APPROVED_RATIONALE, llm_calls |-> 0]
    ELSE LET found == rule_texts(citations, 1)
             chunks == IF Len(found) = 0 THEN <<DEFAULT_CHUNK>> ELSE found
         IN  generate_answer(chunks, RationaleQuestion(decision), settings, llm)

\* [{"id": c, "text": RULE_MAP.get(c, "")} for c in citations]
policy_sources(citations) ==
    [k \in 1..Len(citations) |->
        [id |-> citations[k],
         text |-> IF InRuleMap(citations[k]) THEN RULE_MAP(citations[k]) ELSE <<>>]]

\* POST /verify (app/main.py), lines 164-171: res is what apply_rules
\* returned at line 163
verify(res, settings, llm) ==
    LET rationale == build_rationale(res.decision, res.citations, settings, llm) IN
    IF rationale.raised THEN rationale
    ELSE [raised |-> FALSE,
          decision |-> res.decision,
          citations |-> res.citations,
          reasons |-> res.reasons,
          rationale |-> rationale.text,
          sources |-> policy_sources(res.citations),
          llm_calls |-> rationale.llm_calls]

----------------------------------------------------------------------------
(* app/services/ingest.py: the segmenter *)

\* [p.strip() for p in re.split(r"(?<=[\.\!\?])\s+", text) if p and p.strip()]
RECURSIVE nonblank_parts(_, _)
nonblank_parts(parts, k) ==
    IF k > Len(parts) THEN <<>>
    ELSE IF Len(Strip(parts[k])) > 0
         THEN <<Strip(parts[k])>> \o nonblank_parts(parts, k + 1)
         ELSE nonblank_parts(parts, k + 1)

_split_sentences(text) == nonblank_parts(SplitSentenceEnds(text), 1)

\* the for loop of chunk_text over sentences[k..]; returns chunks and buf
RECURSIVE chunk_loop(_, _, _, _, _, _, _)
chunk_loop(sentences, k, chunks, buf, cur_len, chunk_size, overlap) ==
    IF k > Len(sentences) THEN [chunks |-> chunks, buf |-> buf]
    ELSE LET s == sentences[k]
             s_len == Len(s)
         IN  IF cur_len + s_len + 1 <= chunk_size
             THEN chunk_loop(sentences, k + 1, chunks, Append(buf, s),
                             cur_len + s_len + 1, chunk_size, overlap)
             ELSE IF Len(buf) > 0
                  THEN LET joined == Join(buf, <<" ">>)
                           flushed == Append(chunks, Strip(joined))
                       IN  IF overlap > 0
                           THEN LET carry == Suffix(joined, overlap) IN
                                chunk_loop(sentences, k + 1, flushed, <<carry, s>>,
                                           Len(carry) + 1 + s_len, chunk_size, overlap)
                           ELSE chunk_loop(sentences, k + 1, flushed, <<s>>,
                                           s_len, chunk_size, overlap)
                  ELSE chunk_loop(sentences, k + 1, Append(chunks, Prefix(s, chunk_size)),
                                  <<>>, 0, chunk_size, overlap)

\* lines 71-78: collapse whitespace runs, strip, drop empty and repeated chunks
RECURSIVE clean_chunks(_, _, _, _)
clean_chunks(chunks, k, seen, clean) ==
    IF k > Len(chunks) THEN clean
    ELSE LET cc == Strip(collapse_ws(chunks[k])) IN
         IF Len(cc) > 0 /\ cc \notin seen
         THEN clean_chunks(chunks, k + 1, seen \cup {cc}, Append(clean, cc))
         ELSE clean_chunks(chunks, k + 1, seen, clean)

\* the chunk list with the flush of lines 68-69 left out
RawChunks_without_final_flush(text, chunk_size, overlap) ==
    chunk_loop(_split_sentences(text), 1, <<>>, <<>>, 0, chunk_size, overlap).chunks

\* the chunk list before the clean-up of lines 71-78
RawChunks(text, chunk_size, overlap) ==
    LET r == chunk_loop(_split_sentences(text), 1, <<>>, <<>>, 0, chunk_size, overlap) IN
    IF Len(r.buf) > 0 THEN Append(r.chunks, Strip(Join(r.buf, <<" ">>))) ELSE r.chunks

chunk_text(text, chunk_size, overlap) ==
    clean_chunks(RawChunks(text, chunk_size, overlap), 1, {}, <<>>)

\* f"{i:06d}" for i >= 0
RECURSIVE DecimalDigits(_)
DecimalDigits(i) ==
    IF i < 10 THEN <<Digits[i + 1]>>
    ELSE DecimalDigits(i \div 10) \o <<Digits[(i % 10) + 1]>>

ID_WIDTH == 6

ZeroPad(i) ==
    LET d == DecimalDigits(i) IN
    [k \in 1..(IF Len(d) < ID_WIDTH THEN ID_WIDTH - Len(d) ELSE 0) |-> "0"] \o d

\* an id that leaves the index out
ChunkId_without_index(source, i) == source \o <<"-">> \o ZeroPad(0)

\* f"{source}-{i:06d}" for the 0-based index i
ChunkId(source, i) == source \o <<"-">> \o ZeroPad(i)

\* col.upsert(ids, documents, metadatas, embeddings) of chroma.py:84, by the
\* contract that the docstrings of upsert_documents (lines 72-74) and of
\* add_documents (lines 51-52) state: an item is created under an id the
\* collection lacks and replaced under an id it holds, and the other items
\* stay as they are
col_upsert(col, ids, texts, metas) ==
    LET new == { ids[k] : k \in 1..Len(ids) }
        last(id) == CHOOSE k \in 1..Len(ids) :
                        ids[k] = id /\ \A j \in (k + 1)..Len(ids) : ids[j] # id
    IN  [id \in (DOMAIN col) \cup new |->
            IF id \in new
            THEN [document |-> texts[last(id)], metadata |-> metas[last(id)]]
            ELSE col[id]]

DEFAULT_SOURCE == <<"m", "a", "n", "u", "a", "l">>

\* ingest_text, lines 89-94: the batch it hands to upsert_documents, or no
\* batch for a blank text
ingest_text(text, source, chunk_size, overlap) ==
    IF Len(text) = 0 \/ Len(Strip(text)) = 0
    THEN [blank |-> TRUE, texts |-> <<>>, metas |-> <<>>, ids |-> <<>>]
    ELSE LET chunks == chunk_text(text, chunk_size, overlap) IN
         [blank |-> FALSE,
          texts |-> chunks,
          metas |-> [k \in 1..Len(chunks) |-> [source |-> source, i |-> k - 1]],
          ids |-> [k \in 1..Len(chunks) |-> ChunkId(source, k - 1)]]

----------------------------------------------------------------------------
(* The case payloads apply_rules is called with *)

\* numbers, the spellings float() reads (a sign, a fraction, an exponent with
\* white space around it, nan), and ints at and just inside the magnitude
\* from which float() overflows
ValorValues ==
    { Absent, None, Num(500), Num(1000), Str(<<"a", "b", "c">>), Str(<<"5", "0", "0">>), List(<<>>),
      Str(<<"-", "5">>), Str(<<"9", "9", "9", ".", "5">>), Str(<<" ", "1", "e", "3", "\f">>), Str(<<"n", "a", "n">>),
      BigInt(FALSE, FLOAT_OVERFLOW), BigInt(TRUE, FLOAT_OVERFLOW),
      BigInt(TRUE, Prefix(FLOAT_OVERFLOW, Len(FLOAT_OVERFLOW) - 1) \o <<"1">>) }

\* the phases hold a form feed alone, and a phase between a no-break space
\* and a line separator
Payloads ==
    [ natureza : { None, Str(<<"T", "r", "a", "b", "a", "l", "h", "i", "s", "t", "a">>), Str(<<" ", "c", "i", "v", "e", "l", " ">>), Num(7) },
      valor_condenacao : ValorValues,
      transitado_em_julgado : { None, Bool(TRUE), Bool(FALSE), Str(<<"s", "i", "m">>) },
      docs : { None, Dict(<<>>), Dict(<< <<K_comprovante, Bool(TRUE)>> >>),
               Dict(<< <<K_comprovante, Bool(FALSE)>> >>), List(<<Num(1)>>) },
      fase : { None, Str(<<>>), Str(<<" ", " ">>), Str(<<"E", "x", "e", "c", "u", "c", "a", "o">>), Str(<<"c", "o", "n", "h", "e", "c", "i", "m", "e", "n", "t", "o">>),
               Num(3), Str(<<"\f">>), Str(<<"U+00A0", "E", "X", "E", "C", "U", "C,", "A~", "O", "U+2028">>) } ]

----------------------------------------------------------------------------
(* The validated bodies of POST /verify, the settings and the backend replies *)

\* VerifyIn: natureza: str, valor_condenacao: Optional[float],
\* transitado_em_julgado: Optional[bool], fase: Optional[str], docs: Optional[Dict]
VerifyBodies ==
    [ natureza : { Str(<<"T", "r", "a", "b", "a", "l", "h", "i", "s", "t", "a">>), Str(<<"c", "i", "v", "e", "l">>) },
      valor_condenacao : { None, Num(500), Num(5000) },
      transitado_em_julgado : { None, Bool(TRUE), Bool(FALSE) },
      docs : { None, Dict(<< <<K_comprovante, Bool(TRUE)>> >>) },
      fase : { None, Str(<<"E", "x", "e", "c", "u", "c", "a", "o">>), Str(<<"c", "o", "n", "h", "e", "c", "i", "m", "e", "n", "t", "o">>) } ]

M_flan_t5 == <<"g", "o", "o", "g", "l", "e", "/", "f", "l", "a", "n", "-", "t", "5", "-", "s", "m",
      "a", "l", "l">>
M_gpt2 == <<"g", "p", "t", "2">>

SettingsValues ==
    [ backend : { None, Str(<<"l", "o", "c", "a", "l">>), Str(<<"H", "F">>) }, model : { M_flan_t5, M_gpt2 } ]

UsesHf(settings) == Lower(OrElse(settings.backend, Str(<<"l", "o", "c", "a", "l">>)).s) = <<"h", "f">>

TextReplies ==
    { [kind |-> "text", s |-> <<>>],
      [kind |-> "text", s |-> <<"O", " ", "p", "r", "a", "z", "o", " ", "e", " ", "d", "e", " ", "3", "0", " ", "d",
      "i", "a", "s", ".">>],
      [kind |-> "text", s |-> <<"S", "i", "m">>],
      [kind |-> "text", s |-> <<"R", "e", "s", "p", "o", "s", "t", "a", ":", " ", "O", " ", "p", "r", "a", "z", "o",
      " ", "e", " ", "d", "e", " ", "3", "0", " ", "d", "i", "a", "s", ".">>],
      [kind |-> "text", s |-> <<"C", "o", "n", "f", "o", "r", "m", "e", " ", "o", " ", "t", "e", "x", "t", "o", ",",
      " ", "u", "s", "e", " ", "s", "o", "m", "e", "n", "t", "e", " ", "o", " ", "c", "o",
      "n", "t", "e", "x", "t", "o", ".">>],
      [kind |-> "text", s |-> <<"V", "O", "C", "E^", " ", "R", "E", "S", "P", "O", "N", "D", "E", " ", "E", "M", " ",
      "P", "O", "R", "T", "U", "G", "U", "E^", "S", ".">>],
      [kind |-> "text", s |-> <<"O", " ", "p", "r", "a", "z", "o", " ", "e", " ", "d", "e", " ", "3", "0", " ", "d",
      "i", "a", "s", ".", "\f", "R", "e", "s", "p", "o", "s", "t", "a", ":", " ", "s", "i",
      "m">>],
      [kind |-> "text", s |-> <<"U+4E2D", "R", "R", "A", "G", " ", "e", " ", "a", " ", "s", "i", "g", "l", "a", " ",
      "d", "e", " ", "R", "R", "R", "A", "G", "U+3042", ",", " ", "o", "u", " ", "R", "R",
      "A", "G", ".">>],
      [kind |-> "echo"],
      [kind |-> "echo_then", s |-> <<"\n", "O", " ", "p", "r", "a", "z", "o", " ", "e", " ", "d", "e", " ", "3", "0", " ",
      "d", "i", "a", "s", ".">>] }

\* authentication (401), quota (429) and availability (503) failures of the
\* Inference API, one without a response object, and a failure of a local
\* model; each is raised by the generation call, after the getter has returned
HfErrors ==
    { [kind |-> "error", exc |-> "HfHubHTTPError", status |-> c] : c \in {0, 401, 429, 503} }

LocalErrors == { [kind |-> "error", exc |-> "RuntimeError", status |-> 0] }

\* the replies the configured backend can give
RepliesOf(settings) ==
    TextReplies \cup (IF UsesHf(settings) THEN HfErrors ELSE LocalErrors)

\* a chunk of sentences that are all shorter than FIRST_SENTENCE_MIN and
\* together longer than FIRST_SENTENCE_CUT: "Ab. Ab. Ab. ..."
ManyShortSentences == [i \in 1..248 |-> <<"A", "b", ".", " ">>[((i - 1) % 4) + 1]]

Contexts ==
    { <<>>,
      << <<"S", "i", "m", ".", " ", "O", " ", "p", "r", "a", "z", "o", " ", "e", " ", "d", "e",
      " ", "3", "0", " ", "d", "i", "a", "s", ".">>, <<"O", "u", "t", "r", "o", " ", "t", "r", "e", "c", "h", "o", ".">> >>,
      << ManyShortSentences >>,
      << <<" ", " ", " ">> >>,
      << <<"U+00A0", "\f">>, <<"S", "i", "m", ".", "\f", "O", " ", "p", "r", "a", "z", "o", " ", "e", " ", "d", "e",
      " ", "3", "0", " ", "d", "i", "a", "s", ".", "U+00A0">> >>,
      << <<"R", "e", "s", "p", "o", "s", "t", "a", ":", " ", "p", "a", "g", "a", "r", " ", "e",
      "m", " ", "d", "i", "a", ".">> >>,
      << <<>>, <<" ", "O", " ", "p", "r", "a", "z", "o", " ", "e", " ", "d", "e", " ", "3", "0", " ",
      "d", "i", "a", "s", ".", " ", "D", "e", "p", "o", "i", "s", " ", "d", "i", "s", "s",
      "o", " ", "c", "o", "b", "r", "a", "-", "s", "e", " ", "m", "u", "l", "t", "a", ".">> >>,
      << <<"S", "i", "m", ".", " ", "N", "a", "o", ".">> >>,
      << <<"A", " ", "v", "a", "l", "i", "d", " ", "g", "r", "o", "u", "n", "d", "e", "d", " ",
      "s", "e", "n", "t", "e", "n", "c", "e", " ", "a", "b", "o", "u", "t", " ", "X", ".">> >> }

Questions == { <<>>, <<"Q", "u", "a", "l", " ", "o", " ", "p", "r", "a", "z", "o", "?">>, <<"u", "n", "r", "e", "l", "a", "t", "e", "d", " ", "q", "u", "e", "s", "t", "i", "o",
      "n", "?">> }

CitationLists ==
    { <<>>, <<"POL-8">>, <<"POL-4", "POL-3", "POL-1", "POL-8">>, <<"POL-1">>, <<"POL-9">> }

Decisions == { "approved", "rejected", "incomplete" }

----------------------------------------------------------------------------
(* The texts and configurations the segmenter is called with *)

MaxChunkSize == 20
MaxOverlap == 5

ChunkSizes == (-2)..MaxChunkSize
Overlaps == (-1)..MaxOverlap

Texts ==
    { <<>>,
      <<" ", " ">>,
      <<"S", "e", "n", "t", "e", "n", "c", "e", " ", "o", "n", "e", ".", " ", "S", "e", "n",
      "t", "e", "n", "c", "e", " ", "t", "w", "o", ".", " ", "S", "e", "n", "t", "e", "n",
      "c", "e", " ", "t", "h", "r", "e", "e", ".">>,
      <<"A", "a", ".", " ", "B", "b", ".", " ", "C", "c", ".", " ", "D", "d", ".">>,
      <<"A", "a", "!", " ", "A", "a", "!", " ", "A", "a", "!", " ", "A", "a", "!">>,
      <<"\f", "U+00A0">>,
      <<"A", "a", ".", "\f", "B", "b", ".", "U+00A0", " ", "C", "c", ".", " ", "U+2028", "D",
      "d", ".">>,
      <<"K", "l", ".", " ", "A", "b", "c", "d", "e", "f", "g", "h", "i", "j", "k", "l", "m",
      "n", "o", "p", "q", "r", "s", "t", "u", "v", "w", "x", "y", "z", ".", " ", "M", "n",
      ".">>,
      <<"A", "b", "c", "d", "e", "f", "g", "h", "i", "j", "k", "l", "m", "n", "o", "p", "q",
      "r", "s", "t", "u", "v", "w", "x", "y", "z", "?", " ", " ", "K", "l", ".", "\n", "M",
      "n">>,
      <<"A", "a", " ", " ", "b", "b", ".", " ", "C", "c", "\n", "\n", "d", "d", "?", " ",
      "F", "f", "\n", "g", "g", ".">> }

EmptyCollection == [id \in {} |-> id]

----------------------------------------------------------------------------
----------------------------------------------------------------------------
(* Operations *)

NoCall == [none |-> TRUE]

\* the functions decorated with @lru_cache(maxsize=1); none takes an argument
Getters ==
    { "generator._local_t2t_models", "generator._local_causal_models",
      "generator._hf_client", "embeddings._st_model", "embeddings._hf_client",
      "chroma.get_chroma" }

\* the threads that run request handlers: the worker threads of the server
\* for the synchronous ones (def), its event-loop thread for
\* ingest_pdf_endpoint (async def)
MaxThreads == 2
Threads == 1..MaxThreads

NoHandle == 0
Idle == [pc |-> "idle"]
Free == [pc |-> "free"]

\* no getter has been called yet and no thread runs a handler
InitHandles ==
    /\ cache = [g \in Getters |-> NoHandle]
    /\ calls = [t \in Threads |-> Idle]
    /\ constructed = [g \in Getters |-> 0]
    /\ tasks = [t \in Threads |-> Free]

RulesRequests ==
    { [kind |-> "apply_rules", payload |-> p] : p \in Payloads }
    \cup { [kind |-> "verify", body |-> b, settings |-> st, llm |-> r] :
             b \in VerifyBodies, st \in SettingsValues,
             r \in { [kind |-> "text", s |-> <<>>], [kind |-> "text", s |-> <<"O", " ", "p", "r", "a", "z", "o", " ", "e", " ", "d", "e", " ", "3", "0", " ", "d",
      "i", "a", "s", ".">>],
                      [kind |-> "echo"] }
                      \cup HfErrors \cup LocalErrors }
    \cup { [kind |-> "build_rationale", decision |-> d, citations |-> c,
            settings |-> st, llm |-> r] :
             d \in Decisions, c \in CitationLists, st \in SettingsValues,
             r \in TextReplies \cup HfErrors \cup LocalErrors }

AnswerRequests ==
    { [kind |-> "generate_answer", context_chunks |-> c, question |-> q,
       settings |-> st, llm |-> r] :
         c \in Contexts, q \in Questions, st \in SettingsValues,
         r \in TextReplies \cup HfErrors \cup LocalErrors }

\* POST /ingest/text bodies: a blank text, a text of several chunks under a
\* chunk size below, at and above zero, and a text whose chunks repeat, for
\* the collection "docs", and the text of several chunks for the collection
\* "policy"; embeddings is settings.EMBEDDINGS_BACKEND, a str or None
IngestRequests ==
    { [kind |-> "chunk_text", text |-> t, chunk_size |-> n, overlap |-> o] :
         t \in Texts, n \in ChunkSizes, o \in Overlaps }
    \cup { [kind |-> "ingest_text", collection |-> tn[1][3], text |-> tn[1][1],
            source |-> DEFAULT_SOURCE, chunk_size |-> tn[1][2], overlap |-> 1,
            embeddings |-> tn[2]] :
             tn \in ({ <<<<" ", " ">>, 4, <<"d", "o", "c", "s">>>>, <<<<"A", "a", ".", " ", "B", "b", ".", " ", "C", "c", ".", " ", "D", "d", ".">>, -2, <<"d", "o", "c", "s">>>>,
                       <<<<"A", "a", ".", " ", "B", "b", ".", " ", "C", "c", ".", " ", "D", "d", ".">>, 0, <<"d", "o", "c", "s">>>>,
                       <<<<"A", "a", ".", " ", "B", "b", ".", " ", "C", "c", ".", " ", "D", "d", ".">>, 4, <<"d", "o", "c", "s">>>>,
                       <<<<"A", "a", "!", " ", "A", "a", "!", " ", "A", "a", "!", " ", "A", "a", "!">>, 4, <<"d", "o", "c", "s">>>> }
                         \X { None, Str(<<"H", "F">>) })
                     \cup ({ <<<<"A", "a", ".", " ", "B", "b", ".", " ", "C", "c", ".", " ", "D", "d", ".">>, 4, <<"p", "o", "l", "i", "c", "y">>>> } \X { None }) }

\* what another client sends, one request after the response to the one
\* before, that writes the collection of the request while the request is
\* handled.  For "docs": POST /chroma/collections/docs/add with neither ids
\* nor metadatas, once with two texts or twice with one, or POST /ingest/pdf
\* with a file named "manual" whose text is one sentence, under the defaults
\* of its form (main.py:127-128).  For "policy": POST /policy/seed, and then
\* such a file.
\* It comes with the requests that write several chunks under the default
\* embeddings backend; the other requests are alone.
Traffic(request) ==
    IF \/ request.kind # "ingest_text"
       \/ request.embeddings # None
       \/ request.chunk_size <= 0
       \/ Len(ingest_text(request.text, request.source, request.chunk_size,
                          request.overlap).ids) < 2
    THEN { <<>> }
    ELSE LET add_one == [kind |-> "add_docs", texts |-> << <<"Z", "z", ".">> >>]
             add_two == [kind |-> "add_docs", texts |-> << <<"Z", "z", ".">>, <<"Y", "y", ".">> >>]
             pdf == [kind |-> "ingest_pdf", filename |-> <<"m", "a", "n", "u", "a", "l">>, text |-> <<"X", "x", ".">>,
                     chunk_size |-> 800, overlap |-> 150]
             seed == [kind |-> "policy_seed"]
         IN  IF request.collection = <<"p", "o", "l", "i", "c", "y">>
             THEN { <<seed, pdf>> }
             ELSE { <<>>, <<add_two>>, <<add_one, add_one>>, <<pdf>> }

\* a request is pending, nothing has run, the collection is empty
InitWith(requests) ==
    /\ req \in requests
    /\ (req.kind \in {"verify", "build_rationale", "generate_answer"}
            => req.llm \in RepliesOf(req.settings))
    /\ op = "none"
    /\ ret = NoCall
    /\ store = EmptyCollection
    /\ InitHandles
    /\ traffic \in Traffic(req)

Init == InitWith(RulesRequests \cup AnswerRequests \cup IngestRequests)

\* process start, before any request: only the memoized getters are followed
InitGetters ==
    /\ req = NoCall
    /\ op = "none"
    /\ ret = NoCall
    /\ store = EmptyCollection
    /\ InitHandles
    /\ traffic = <<>>

\* the getter generate_answer calls through the backend it selects
\* (lines 200-204; the getter calls are lines 126, 156 and 180)
LlmGetter(settings) ==
    IF UsesHf(settings) THEN "generator._hf_client"
    ELSE IF _is_seq2seq_name(settings.model) THEN "generator._local_t2t_models"
    ELSE "generator._local_causal_models"

\* the getter embed_texts calls through the backend it selects
EmbeddingsGetter(backend) ==
    IF Lower(OrElse(backend, Str(<<"l", "o", "c", "a", "l">>)).s) = <<"h", "f">>
    THEN "embeddings._hf_client"
    ELSE "embeddings._st_model"

\* the getters thread t may call where its code stands: any of them before
\* the first request, none between requests, and in a handler the one its
\* next statement calls
Callable(t) ==
    CASE tasks[t].pc = "free" -> IF req = NoCall THEN Getters ELSE {}
      [] tasks[t].pc = "generate" -> { LlmGetter(req.settings) }
      [] tasks[t].pc \in {"open", "count"} -> { "chroma.get_chroma" }
      [] tasks[t].pc = "embed" -> { EmbeddingsGetter(req.embeddings) }
      [] OTHER -> {}

\* thread t calls getter g: the lru_cache wrapper looks the key up; on a hit
\* it returns the cached handle, on a miss it goes on to run the body, with
\* no lock held while the body runs
CacheLookup(t, g) ==
    /\ g \in Callable(t)
    /\ calls[t].pc = "idle"
    /\ calls' = [calls EXCEPT ![t] =
                    IF cache[g] # NoHandle
                    THEN [pc |-> "returned", getter |-> g, handle |-> cache[g]]
                    ELSE [pc |-> "constructing", getter |-> g]]
    /\ UNCHANGED <<req, op, ret, store, cache, constructed, tasks, traffic>>

\* the body of the getter finishes in thread t: a new handle exists; the
\* wrapper stores it unless the key was stored meanwhile, and returns the
\* handle this call built
Construct(t) ==
    /\ calls[t].pc = "constructing"
    /\ LET g == calls[t].getter
           h == constructed[g] + 1
       IN  /\ constructed' = [constructed EXCEPT ![g] = h]
           /\ cache' = [cache EXCEPT ![g] = IF cache[g] = NoHandle THEN h ELSE cache[g]]
           /\ calls' = [calls EXCEPT ![t] = [pc |-> "returned", getter |-> g, handle |-> h]]
    /\ UNCHANGED <<req, op, ret, store, tasks, traffic>>

\* a caller of a getter outside the handlers followed here is done with the
\* handle; its thread takes the next call
HandlerReturns(t) ==
    /\ tasks[t] = Free
    /\ calls[t].pc = "returned"
    /\ calls' = [calls EXCEPT ![t] = Idle]
    /\ UNCHANGED <<req, op, ret, store, cache, constructed, tasks, traffic>>

\* thread t goes on past its getter call, or ends its handler
Proceed(t, task) ==
    /\ tasks' = [tasks EXCEPT ![t] = task]
    /\ calls' = [calls EXCEPT ![t] = Idle]

\* a direct call of apply_rules(payload); it touches nothing shared
ApplyRules ==
    /\ op = "none"
    /\ req.kind = "apply_rules"
    /\ op' = "apply_rules"
    /\ ret' = apply_rules(req.payload)
    /\ UNCHANGED <<req, store, cache, calls, constructed, tasks, traffic>>

\* thread t takes the pending call.  POST /verify runs apply_rules on the
\* dumped body (main.py:162-163) and enters build_rationale; build_rationale
\* returns at once for "approved" (verify.py:82) and otherwise goes on to
\* generate_answer, which is followed up to the getter call of its backend.
Begin(t) ==
    /\ op = "none"
    /\ req.kind \in {"verify", "build_rationale", "generate_answer"}
    /\ \A u \in Threads : tasks[u] = Free
    /\ calls[t].pc = "idle"
    /\ LET res == IF req.kind = "verify" THEN apply_rules(req.body) ELSE NoCall
           decision == CASE req.kind = "verify" ->
                                IF res.raised THEN "raised" ELSE res.decision
                         [] req.kind = "build_rationale" -> req.decision
                         [] OTHER -> "none"
       IN  tasks' = [tasks EXCEPT ![t] =
                        [pc |-> IF decision \in {"approved", "raised"}
                                THEN "respond" ELSE "generate",
                         res |-> res]]
    /\ UNCHANGED <<req, op, ret, store, cache, calls, constructed, traffic>>

\* the call in thread t can finish: it needed no backend, or the getter of
\* its backend has returned
Finishing(t) ==
    \/ tasks[t].pc = "respond"
    \/ tasks[t].pc = "generate" /\ calls[t].pc = "returned"

\* a direct call of build_rationale(decision, citations) returns or raises
BuildRationale(t) ==
    /\ req.kind = "build_rationale"
    /\ Finishing(t)
    /\ op' = "build_rationale"
    /\ ret' = build_rationale(req.decision, req.citations, req.settings, req.llm)
    /\ Proceed(t, Free)
    /\ UNCHANGED <<req, store, cache, constructed, traffic>>

\* POST /verify responds (main.py:164-171)
Verify(t) ==
    /\ req.kind = "verify"
    /\ Finishing(t)
    /\ op' = "verify"
    /\ ret' = IF tasks[t].res.raised
              THEN [raised |-> TRUE, exc |-> tasks[t].res.exc, status |-> 0,
                    llm_calls |-> 0]
              ELSE verify(tasks[t].res, req.settings, req.llm)
    /\ Proceed(t, Free)
    /\ UNCHANGED <<req, store, cache, constructed, traffic>>

\* a direct call of generate_answer(context_chunks, question) returns or raises
GenerateAnswer(t) ==
    /\ req.kind = "generate_answer"
    /\ Finishing(t)
    /\ op' = "generate_answer"
    /\ ret' = generate_answer(req.context_chunks, req.question, req.settings, req.llm)
    /\ Proceed(t, Free)
    /\ UNCHANGED <<req, store, cache, constructed, traffic>>

\* a direct call of chunk_text(text, chunk_size, overlap); it has no raise
\* and touches nothing shared
ChunkText ==
    /\ op = "none"
    /\ req.kind = "chunk_text"
    /\ op' = "chunk_text"
    /\ ret' = [raised |-> FALSE,
               chunks |-> chunk_text(req.text, req.chunk_size, req.overlap)]
    /\ UNCHANGED <<req, store, cache, calls, constructed, tasks, traffic>>

\* the response, or the error response, of POST /ingest/text goes out
Respond(t, response) ==
    /\ op' = IF op = "none" THEN "ingest_text" ELSE "ingest_text_again"
    /\ ret' = response
    /\ Proceed(t, Free)

\* thread t takes a POST /ingest/text request and runs ingest_text up to its
\* call of upsert_documents (ingest.py:89-95); a blank text skips the upsert
\* and goes on to collection_count (main.py:120).  The client sends the
\* request, and sends the same request once more without waiting for the
\* first response: answered and handled are the requests answered so far and
\* those being handled.
IngestText(t) ==
    /\ req.kind = "ingest_text"
    /\ tasks[t] = Free
    /\ calls[t].pc = "idle"
    /\ LET answered == CASE op = "none" -> 0 [] op = "ingest_text" -> 1 [] OTHER -> 2
           handled == { u \in Threads : tasks[u].pc # "free" /\ tasks[u].own }
       IN  answered + Cardinality(handled) < 2
    /\ LET batch == ingest_text(req.text, req.source, req.chunk_size, req.overlap) IN
       tasks' = [tasks EXCEPT ![t] =
                    [pc |-> IF batch.blank THEN "count" ELSE "open",
                     own |-> TRUE, call |-> "upsert_documents",
                     ids |-> batch.ids, texts |-> batch.texts, metas |-> batch.metas]]
    /\ UNCHANGED <<req, op, ret, store, cache, calls, constructed, traffic>>

\* str(uuid.uuid4()) for the n-th id drawn: a random id that no code reads,
\* so that it is named by its turn
Uuid4(n) == <<"u", "u", "i", "d", "4", "-">> \o ZeroPad(n)

\* thread t takes the next request of another client, POST
\* /chroma/collections/{name}/add for the collection of the request, with
\* texts and neither ids nor metadatas (main.py:86-88), and enters
\* add_documents
AddDocs(t) ==
    /\ traffic # <<>>
    /\ Head(traffic).kind = "add_docs"
    /\ \A u \in Threads : tasks[u].pc # "free" => tasks[u].own
    /\ tasks[t] = Free
    /\ calls[t].pc = "idle"
    /\ tasks' = [tasks EXCEPT ![t] =
                    [pc |-> "open", own |-> FALSE, call |-> "add_documents",
                     ids |-> <<>>, texts |-> Head(traffic).texts, metas |-> <<>>]]
    /\ traffic' = Tail(traffic)
    /\ UNCHANGED <<req, op, ret, store, cache, calls, constructed>>

\* thread t takes the next request of another client, POST /policy/seed, and
\* enters upsert_documents with the texts, ids and metadatas of the policy
\* rules (main.py:97-100)
PolicySeed(t) ==
    /\ traffic # <<>>
    /\ Head(traffic).kind = "policy_seed"
    /\ \A u \in Threads : tasks[u].pc # "free" => tasks[u].own
    /\ tasks[t] = Free
    /\ calls[t].pc = "idle"
    /\ LET rules == 1..Len(POLICY_RULES)
           chars == << <<"P", "O", "L", "-", "1">>, <<"P", "O", "L", "-", "2">>, <<"P", "O", "L", "-", "3">>, <<"P", "O", "L", "-", "4">>, <<"P", "O", "L", "-", "5">>,
                       <<"P", "O", "L", "-", "6">>, <<"P", "O", "L", "-", "7">>, <<"P", "O", "L", "-", "8">> >>
       IN  tasks' = [tasks EXCEPT ![t] =
                        [pc |-> "open", own |-> FALSE, call |-> "upsert_documents",
                         ids |-> [k \in rules |-> chars[k]],
                         texts |-> [k \in rules |-> POLICY_RULES[k].text],
                         metas |-> [k \in rules |-> [rule_id |-> chars[k]]]]]
    /\ traffic' = Tail(traffic)
    /\ UNCHANGED <<req, op, ret, store, cache, calls, constructed>>

\* the event-loop thread t takes the next request of another client, POST
\* /ingest/pdf for the collection of the request, and runs ingest_pdf_bytes
\* up to the call of upsert_documents (main.py:131-138, ingest.py:107-114,
\* 89-95): text is what extract_text_from_pdf made of the file, the source is
\* the name of the file
IngestPdfEndpoint(t) ==
    /\ traffic # <<>>
    /\ Head(traffic).kind = "ingest_pdf"
    /\ \A u \in Threads : tasks[u].pc # "free" => tasks[u].own
    /\ tasks[t] = Free
    /\ calls[t].pc = "idle"
    /\ LET r == Head(traffic)
           filename == IF Len(r.filename) > 0 THEN r.filename ELSE <<"u", "p", "l", "o", "a", "d", ".", "p", "d", "f">>
           batch == ingest_text(r.text, filename, r.chunk_size, r.overlap)
       IN  tasks' = [tasks EXCEPT ![t] =
                        [pc |-> IF batch.blank THEN "count" ELSE "open",
                         own |-> FALSE, call |-> "upsert_documents",
                         ids |-> batch.ids, texts |-> batch.texts,
                         metas |-> batch.metas]]
    /\ traffic' = Tail(traffic)
    /\ UNCHANGED <<req, op, ret, store, cache, calls, constructed>>

\* get_or_create_collection (chroma.py:54, 76): the client is at hand and
\* the collection is opened, an empty one when it is new
OpenCollection(t) ==
    /\ tasks[t].pc = "open"
    /\ calls[t].pc = "returned"
    /\ Proceed(t, [tasks[t] EXCEPT !.pc = "embed"])
    /\ UNCHANGED <<req, op, ret, store, cache, constructed, traffic>>

\* how the embedding call can end once the getter has returned: with the
\* vectors; for "hf" with the HTTPException that _embed_hf makes of an
\* HfHubHTTPError, under the status of its response or 500 when it has none
\* (embeddings.py:39-43); for a local model with an error of encode
EmbedOutcomes(backend) ==
    { [raised |-> FALSE] }
    \cup (IF EmbeddingsGetter(backend) = "embeddings._hf_client"
          THEN { [raised |-> TRUE, exc |-> "HTTPException", status |-> c] :
                    c \in {403, 500} }
          ELSE { [raised |-> TRUE, exc |-> "RuntimeError", status |-> 0] })

\* embed_texts (chroma.py:55, 77) returns the vectors, or raises with
\* nothing written: the handler ends with the error
EmbedTexts(t) ==
    /\ tasks[t].pc = "embed"
    /\ calls[t].pc = "returned"
    /\ \E o \in EmbedOutcomes(req.embeddings) :
          IF ~o.raised
          THEN /\ Proceed(t, [tasks[t] EXCEPT !.pc = "write"])
               /\ UNCHANGED <<op, ret>>
          ELSE IF tasks[t].own
          THEN Respond(t, o)
          ELSE Proceed(t, Free) /\ UNCHANGED <<op, ret>>
    /\ UNCHANGED <<req, store, cache, constructed, traffic>>

\* col.upsert of upsert_documents (chroma.py:84), and the return to its
\* caller (ingest.py:96, main.py:101).  What the store library does with an
\* empty batch is its own affair and differs between its versions: it leaves
\* the collection as it is, or it raises ValueError.
UpsertDocuments(t) ==
    /\ tasks[t].pc = "write"
    /\ tasks[t].call = "upsert_documents"
    /\ \/ /\ store' = col_upsert(store, tasks[t].ids, tasks[t].texts, tasks[t].metas)
          /\ tasks' = [tasks EXCEPT ![t].pc = "count"]
          /\ UNCHANGED <<op, ret, calls>>
       \/ /\ Len(tasks[t].ids) = 0
          /\ IF tasks[t].own
             THEN Respond(t, [raised |-> TRUE, exc |-> "ValueError", status |-> 0])
             ELSE Proceed(t, Free) /\ UNCHANGED <<op, ret>>
          /\ UNCHANGED store
    /\ UNCHANGED <<req, cache, constructed, traffic>>

\* add_documents, lines 57-62: a uuid4 id for each text, an empty metadata
\* for each, and col.add, which creates the items under these new ids
AddDocuments(t) ==
    /\ tasks[t].pc = "write"
    /\ tasks[t].call = "add_documents"
    /\ LET drawn == Cardinality({ id \in DOMAIN store : StartsWith(id, <<"u", "u", "i", "d", "4", "-">>) })
           texts == tasks[t].texts
           ids == [k \in 1..Len(texts) |-> Uuid4(drawn + k)]
       IN  store' = [id \in (DOMAIN store) \cup { ids[k] : k \in 1..Len(ids) } |->
                        IF id \in DOMAIN store THEN store[id]
                        ELSE [document |-> texts[CHOOSE k \in 1..Len(ids) : ids[k] = id],
                              metadata |-> [k \in {} |-> k]]]
    /\ tasks' = [tasks EXCEPT ![t].pc = "count"]
    /\ UNCHANGED <<req, op, ret, cache, calls, constructed, traffic>>

\* collection_count (main.py:120, 139, 89) and col.count() of policy_seed
\* (main.py:101-105): the collection is read when the client is at hand, and
\* the response goes out with the count read (main.py:121-122)
CollectionCount(t) ==
    /\ tasks[t].pc = "count"
    /\ calls[t].pc = "returned"
    /\ IF tasks[t].own
       THEN Respond(t, [raised |-> FALSE,
                        added |-> Len(tasks[t].ids),
                        ids |-> tasks[t].ids,
                        count_after |-> Cardinality(DOMAIN store)])
       ELSE Proceed(t, Free) /\ UNCHANGED <<op, ret>>
    /\ UNCHANGED <<req, store, cache, constructed, traffic>>

NextGetters ==
    \/ \E t \in Threads : \E g \in Getters : CacheLookup(t, g)
    \/ \E t \in Threads : Construct(t)
    \/ \E t \in Threads : HandlerReturns(t)

NextRules ==
    \/ ApplyRules
    \/ \E t \in Threads : Begin(t)
    \/ \E t \in Threads : \E g \in Getters : CacheLookup(t, g)
    \/ \E t \in Threads : Construct(t)
    \/ \E t \in Threads : BuildRationale(t)
    \/ \E t \in Threads : Verify(t)

NextAnswer ==
    \/ \E t \in Threads : Begin(t)
    \/ \E t \in Threads : \E g \in Getters : CacheLookup(t, g)
    \/ \E t \in Threads : Construct(t)
    \/ \E t \in Threads : GenerateAnswer(t)

NextIngest ==
    \/ ChunkText
    \/ \E t \in Threads : IngestText(t)
    \/ \E t \in Threads : AddDocs(t)
    \/ \E t \in Threads : PolicySeed(t)
    \/ \E t \in Threads : IngestPdfEndpoint(t)
    \/ \E t \in Threads : \E g \in Getters : CacheLookup(t, g)
    \/ \E t \in Threads : Construct(t)
    \/ \E t \in Threads : OpenCollection(t)
    \/ \E t \in Threads : EmbedTexts(t)
    \/ \E t \in Threads : UpsertDocuments(t)
    \/ \E t \in Threads : AddDocuments(t)
    \/ \E t \in Threads : CollectionCount(t)

Next == NextRules \/ NextAnswer \/ NextIngest \/ NextGetters

SpecRules == InitWith(RulesRequests) /\ [][NextRules]_vars
SpecAnswer == InitWith(AnswerRequests) /\ [][NextAnswer]_vars
SpecIngest == InitWith(IngestRequests) /\ [][NextIngest]_vars
SpecGetters == InitGetters /\ [][NextGetters]_vars
Spec == Init /\ [][Next]_vars

----------------------------------------------------------------------------
(* Properties of the rule engine *)

Returned(name) == op = name /\ ~ret.raised

\* the citations of a payload in the order the four checks append them
\* (defined when apply_rules returns)
CitedInOrder(payload) ==
    RawCitations(NormStr(Get(payload, "natureza")).s,
                 Get(payload, "valor_condenacao"),
                 Get(payload, "transitado_em_julgado"),
                 ComprovanteFlag(Get(payload, "docs")).b,
                 NormStr(Get(payload, "fase")).s)

\* C1: the decision apply_rules returns is "rejected" exactly when POL-4 is
\* cited, or POL-3 is cited, or transitado_em_julgado is exactly False, or
\* POL-1 is cited and POL-8 is not; otherwise it is "incomplete" exactly when
\* POL-8 is cited; otherwise it is "approved".
C1_DecisionPrecedence ==
    Returned("apply_rules") =>
        LET c == ret.citations
            cited(id) == \E k \in 1..Len(c) : c[k] = id
            transitado == Get(req.payload, "transitado_em_julgado")
            reject == \/ cited("POL-4")
                      \/ cited("POL-3")
                      \/ (transitado.t = "bool" /\ transitado.b = FALSE)
                      \/ (cited("POL-1") /\ ~cited("POL-8"))
        IN  /\ (ret.decision = "rejected") <=> reject
            /\ (ret.decision = "incomplete") <=> (~reject /\ cited("POL-8"))
            /\ (ret.decision = "approved") <=> (~reject /\ ~cited("POL-8"))

\* C1 witness: a case rejected only because transitado_em_julgado is False,
\* although POL-8 is cited and neither POL-4 nor POL-3 is
C1_Witness ==
    /\ Returned("apply_rules")
    /\ ret.decision = "rejected"
    /\ IsFalse(Get(req.payload, "transitado_em_julgado"))
    /\ InList("POL-8", ret.citations)
    /\ ~InList("POL-4", ret.citations)
    /\ ~InList("POL-3", ret.citations)

\* C2 (as claimed): apply_rules never raises; for every payload, fields of the
\* wrong type included, it returns one of the three decisions.
C2_NeverRaises ==
    op = "apply_rules" => (~ret.raised /\ ret.decision \in Decisions)

\* a field that is missing (None, absent, empty) or malformed
ValorMissingOrMalformed(payload) ==
    LET v == Get(payload, "valor_condenacao") IN IsNone(v) \/ ~ToFloat(v).ok

TransitoMissingOrMalformed(payload) ==
    LET v == Get(payload, "transitado_em_julgado")
        docs == ComprovanteFlag(Get(payload, "docs"))
    IN  v.t # "bool" /\ docs.ok /\ ~docs.b

FaseMissingOrMalformed(payload) ==
    LET v == Get(payload, "fase") IN
    v.t # "str" \/ Len(Strip(v.s)) = 0

\* C3 (as claimed): when valor_condenacao, transitado_em_julgado (without a
\* proof-of-finality flag) or fase is missing or malformed, the citations that
\* apply_rules returns contain POL-8 and the decision is not "approved".
\* Stated for the calls that return, so that a violation is a returned result.
C3_MissingFieldCitesPOL8 ==
    ( /\ Returned("apply_rules")
      /\ \/ ValorMissingOrMalformed(req.payload)
         \/ TransitoMissingOrMalformed(req.payload)
         \/ FaseMissingOrMalformed(req.payload) )
    => (InList("POL-8", ret.citations) /\ ret.decision # "approved")

\* position of the first occurrence of x in seq
FirstIndex(seq, x) == Min({ k \in 1..Len(seq) : seq[k] = x })

\* C4: the citations apply_rules returns hold no rule id twice, hold exactly
\* the ids the four checks cited, and keep them in the order in which the
\* labor, award value, finality and phase checks first cited them.
C4_CitationsDeduped ==
    Returned("apply_rules") =>
        LET c == ret.citations
            raw == CitedInOrder(req.payload)
        IN  /\ \A i, j \in 1..Len(c) : i # j => c[i] # c[j]
            /\ { c[k] : k \in 1..Len(c) } = { raw[k] : k \in 1..Len(raw) }
            /\ \A i, j \in 1..Len(c) :
                  i < j => FirstIndex(raw, c[i]) < FirstIndex(raw, c[j])

\* C4 witness: the value, finality and phase checks all cite POL-8 and the
\* result is the single entry POL-8
C4_Witness ==
    /\ Returned("apply_rules")
    /\ CitedInOrder(req.payload) = <<"POL-8", "POL-8", "POL-8">>
    /\ ret.citations = <<"POL-8">>
    /\ ret.decision = "incomplete"

----------------------------------------------------------------------------
(* Properties of generate_answer and build_rationale *)

HasUsableContext(context_chunks) == Len(usable_chunks(context_chunks, 1)) > 0

\* what _clean_answer makes of the backend's reply to the request's prompt
CleanedReply(r) ==
    LET prompt == PromptOf(usable_chunks(r.context_chunks, 1), r.question, r.settings) IN
    _clean_answer(r.question, prompt, Decoded(r.llm, prompt))

\* C5 (as claimed): with at least one non-empty context chunk, the string
\* generate_answer returns contains none of the leaked-instruction substrings,
\* on the fallback path too.
C5_NoLeakedInstruction ==
    (Returned("generate_answer") /\ HasUsableContext(req.context_chunks))
        => ~HasEchoPattern(ret.text)

\* C6: whatever the context, the question and the text the backend returns,
\* generate_answer returns at least one character; with no usable context and
\* an unusable generation it returns "Nao encontrei no contexto.".
C6_NeverEmpty ==
    Returned("generate_answer") =>
        /\ Len(ret.text) > 0
        /\ ( /\ ~HasUsableContext(req.context_chunks)
             /\ LET ans == CleanedReply(req) IN
                    _looks_like_echo(ans) \/ Len(ans) < MIN_ANSWER_LEN )
           => ret.text = NOT_FOUND

\* C6 witness: only blank chunks and an empty generation give the literal
C6_Witness ==
    /\ Returned("generate_answer")
    /\ Len(req.context_chunks) > 0
    /\ ~HasUsableContext(req.context_chunks)
    /\ req.llm.kind = "text"
    /\ req.llm.s = <<>>
    /\ ret.text = NOT_FOUND

\* C7 (as claimed): when the backend call fails with an authentication, quota
\* or availability error and a non-empty context chunk was supplied,
\* generate_answer raises nothing and returns the extractive fallback.
C7_BackendFailureFallsBack ==
    ( /\ op = "generate_answer"
      /\ req.llm.kind = "error"
      /\ req.llm.exc = "HfHubHTTPError"
      /\ req.llm.status \in {401, 429, 503}
      /\ HasUsableContext(req.context_chunks) )
    => ( /\ ~ret.raised
         /\ ret.text = _first_sentence(usable_chunks(req.context_chunks, 1)[1]) )

\* C8: build_rationale("approved", citations) returns the fixed approval
\* sentence for every citations list without calling the backend; POST /verify
\* calls the backend at most once, and only when the decision is "rejected"
\* or "incomplete".
C8_ApprovedBypassesModel ==
    /\ (op = "build_rationale" /\ req.decision = "approved") =>
          (~ret.raised /\ ret.text = APPROVED_RATIONALE /\ ret.llm_calls = 0)
    /\ op = "verify" =>
          LET decision == apply_rules(req.body).decision IN
          /\ ret.llm_calls <= 1
          /\ ret.llm_calls = 1 => decision \in {"rejected", "incomplete"}
          /\ decision = "approved" =>
                (~ret.raised /\ ret.rationale = APPROVED_RATIONALE /\ ret.llm_calls = 0)

\* C8 witness: an approved /verify answered with the fixed sentence while the
\* backend is failing
C8_Witness ==
    /\ Returned("verify")
    /\ ret.decision = "approved"
    /\ req.llm.kind = "error"
    /\ ret.rationale = APPROVED_RATIONALE
    /\ ret.llm_calls = 0

----------------------------------------------------------------------------
(* Properties of the segmenter *)

\* C9 (as claimed): chunk_text and ingest_text called with chunk_size <= 0 end
\* in an error, never in a chunk list and never in an upsert: no handler of
\* the request gets past upsert_documents.  Stated for the texts that hold a
\* sentence, where segmentation has something to cut.
C9_NonPositiveChunkSizeRejected ==
    ( /\ req.kind \in {"chunk_text", "ingest_text"}
      /\ req.chunk_size <= 0
      /\ Len(Strip(req.text)) > 0 )
    => /\ op \in {"chunk_text", "ingest_text"} => ret.raised
       /\ \A t \in Threads : ~(tasks[t].pc = "count" /\ tasks[t].own)

\* C10 (as claimed): for chunk_size > 0 and overlap >= 0 every chunk that
\* chunk_text returns has at most chunk_size characters.
C10_ChunksWithinChunkSize ==
    (op = "chunk_text" /\ req.chunk_size > 0 /\ req.overlap >= 0)
        => \A k \in 1..Len(ret.chunks) : Len(ret.chunks[k]) <= req.chunk_size



\* the concatenation of a chunk list
ChunkConcat(chunks) == Join(chunks, <<" ">>)

\* the sentences as the clean-up of lines 71-78 leaves them in a chunk
Collapsed(sentences) == [k \in 1..Len(sentences) |-> collapse_ws(sentences[k])]

\* first position >= i at which p occurs in t, 0 when there is none
FindFrom(t, p, i) ==
    LET at == { j \in i..(Len(t) - Len(p) + 1) : StartsWithAt(t, p, j) } IN
    IF at = {} THEN 0 ELSE Min(at)

\* pieces[k..] occur in t from position i on, one after the other in order
RECURSIVE CoveredInOrder(_, _, _, _)
CoveredInOrder(pieces, k, t, i) ==
    IF k > Len(pieces) THEN TRUE
    ELSE LET at == FindFrom(t, pieces[k], i) IN
         /\ at > 0
         /\ CoveredInOrder(pieces, k + 1, t, at + Len(pieces[k]))

\* every sentence of the text fits in a chunk of chunk_size with room for
\* the separator, so the loop never truncates
AllSentencesFit(text, chunk_size) ==
    \A k \in 1..Len(_split_sentences(text)) :
        Len(_split_sentences(text)[k]) + 1 <= chunk_size

\* the clean-up removed a chunk as a repetition of an earlier one
DuplicateDropped ==
    Len(ret.chunks) < Len(RawChunks(req.text, req.chunk_size, req.overlap))

\* C11 (as claimed): for chunk_size > 0 every sentence of the split occurs in
\* full, in input order, in the concatenation of the chunks chunk_text
\* returns; no sentence is lost to the removal of repeated chunks.  Stated
\* for the texts whose sentences all fit, where the truncation exception
\* plays no part, and with "in full" read up to the collapsing of white-space
\* runs that the clean-up applies to every chunk.
C11_EverySentenceCovered ==
    ( /\ op = "chunk_text"
      /\ req.chunk_size > 0
      /\ AllSentencesFit(req.text, req.chunk_size) )
    => CoveredInOrder(Collapsed(_split_sentences(req.text)), 1,
                      ChunkConcat(ret.chunks), 1)

\* What the chunks keep of sentences[k..]: the sentence with its runs of two
\* or more white-space characters collapsed to one space, cut to its first
\* chunk_size characters only when it is met with an empty buffer and does
\* not fit.  The buffer is empty at the first sentence and after a sentence
\* that went to a chunk of its own for want of room, and at no other time.
RECURSIVE KeptPieces(_, _, _, _)
KeptPieces(sentences, k, empty_buffer, chunk_size) ==
    IF k > Len(sentences) THEN <<>>
    ELSE LET alone == empty_buffer /\ Len(sentences[k]) + 1 > chunk_size
             kept == IF alone THEN Prefix(sentences[k], chunk_size) ELSE sentences[k]
         IN  <<Strip(collapse_ws(kept))>>
                 \o KeptPieces(sentences, k + 1, alone, chunk_size)

\* pieces[k..] are spelled, each once and in order, by a list made of the
\* returned chunks in their order with any of them standing again at later
\* places: the next chunk of the list is the next returned chunk not yet used
\* or one of those used before (a chunk the clean-up removed as a
\* repetition), and it reads as one or more of the next pieces joined by
\* single spaces, after an optional carry of at most `overlap` trailing
\* characters of the chunk before it and a space.  used is the number of
\* returned chunks placed so far and prev the chunk placed last.
RECURSIVE SpelledBy(_, _, _, _, _, _)
SpelledBy(pieces, k, chunks, used, prev, overlap) ==
    IF k > Len(pieces) THEN used = Len(chunks)
    ELSE \E c \in 1..(IF used < Len(chunks) THEN used + 1 ELSE used) :
         \E x \in 0..(IF overlap <= 0 THEN 0
                      ELSE IF overlap < Len(prev) THEN overlap ELSE Len(prev)) :
         \E m \in 1..(Len(pieces) - k + 1) :
            LET carry == IF x = 0 THEN <<>>
                         ELSE SubSeq(prev, Len(prev) - x + 1, Len(prev)) \o <<" ">>
            IN  /\ chunks[c] = carry \o Join(SubSeq(pieces, k, k + m - 1), <<" ">>)
                /\ SpelledBy(pieces, k + m, chunks, IF c > used THEN c ELSE used,
                             chunks[c], overlap)

\* C11 (amended): for chunk_size > 0 the chunks chunk_text returns, with
\* every chunk that the clean-up removed as an exact repetition of an earlier
\* chunk put back at its place, spell the sentences of the split in input
\* order, each once (not counting the overlap carry at the head of a chunk)
\* and in full up to the collapsing of white-space runs; the only exception
\* is a sentence longer than chunk_size met with an empty buffer, of which
\* the first chunk_size characters are kept.  A sentence is missing from the
\* returned chunks only as part of a chunk that repeats a returned chunk.
C11_SentencesKeptUpToDuplicates ==
    (op = "chunk_text" /\ req.chunk_size > 0)
    => SpelledBy(KeptPieces(_split_sentences(req.text), 1, TRUE, req.chunk_size),
                 1, ret.chunks, 0, <<>>, req.overlap)

\* chunk_text ran on a text of several fitting sentences and the clean-up
\* removed a repeated chunk, leaving fewer chunks than sentences in order
C11_Witness ==
    /\ op = "chunk_text"
    /\ req.chunk_size > 0
    /\ Len(_split_sentences(req.text)) >= 2
    /\ AllSentencesFit(req.text, req.chunk_size)
    /\ DuplicateDropped
    /\ Len(ret.chunks) >= 1
    /\ ~CoveredInOrder(Collapsed(_split_sentences(req.text)), 1,
                       ChunkConcat(ret.chunks), 1)


\* C12 (as claimed): under any interleaving of concurrent first calls the body
\* of each memoized getter runs at most once, and all threads that called the
\* same getter hold the same handle.
C12_ConstructedAtMostOnce ==
    /\ \A g \in Getters : constructed[g] <= 1
    /\ \A t, u \in Threads :
          ( /\ calls[t].pc = "returned"
            /\ calls[u].pc = "returned"
            /\ calls[t].getter = calls[u].getter )
          => calls[t].handle = calls[u].handle



\* the ids of one ingestion are pairwise distinct
PairwiseDistinct(ids) ==
    \A i, j \in 1..Len(ids) : i # j => ids[i] # ids[j]

\* id reads "<source>-<index>" with the index i written in decimal digits,
\* zero-padded to six places or more
ReadsAsChunkId(id, source, i) ==
    LET digits == DropPrefix(id, Len(source) + 1) IN
    /\ StartsWith(id, source \o <<"-">>)
    /\ Len(digits) >= ID_WIDTH
    /\ \A k \in 1..Len(digits) : IsDigit(digits[k])
    /\ DecimalValue(digits) = i

\* the items of the collection that the ingestion of the request did not
\* write
OtherItems(col, ids) == (DOMAIN col) \ { ids[k] : k \in 1..Len(ids) }

\* C13: within one ingest_text call the chunk ids "<source>-<zero-padded
\* index>" are pairwise distinct, one per chunk in chunk order; and the same
\* request ingested again, after or while the first is handled, returns the
\* same id list, maps every id to the same chunk, adds no item and changes
\* none: each upsert leaves id k on chunk k and the items under other ids as
\* they were, an upsert into a collection that holds chunk k under id k for
\* every k, as an ingestion of the request leaves it, leaves the collection
\* as it is, and each count_after is the number of chunks plus the items
\* under other ids, so the same both times when there are none.  It speaks
\* of the ingestions that return; one whose embedding call raises writes
\* nothing.  Other clients write the collection meanwhile, under ids of
\* their own and under the ids of the request.
C13_IdsUniqueAndStable ==
    [][ LET chunks == chunk_text(req.text, req.chunk_size, req.overlap)
            answered == op' # op /\ op' \in {"ingest_text", "ingest_text_again"}
            item(k) == [document |-> chunks[k],
                        metadata |-> [source |-> req.source, i |-> k - 1]]
        IN
        /\ (answered /\ ~ret'.raised)
              => /\ PairwiseDistinct(ret'.ids)
                 /\ ret'.added = Len(ret'.ids)
                 /\ Len(Strip(req.text)) > 0 => Len(ret'.ids) = Len(chunks)
                 /\ \A k \in 1..Len(ret'.ids) :
                       /\ ReadsAsChunkId(ret'.ids[k], req.source, k - 1)
                       /\ ret'.ids[k] \in DOMAIN store'
                 /\ ret'.count_after
                       = Len(ret'.ids) + Cardinality(OtherItems(store', ret'.ids))
        /\ (answered /\ op = "ingest_text" /\ ~ret.raised /\ ~ret'.raised)
              => /\ ret'.ids = ret.ids
                 /\ ret'.added = ret.added
                 /\ ret'.count_after >= ret.count_after
                 /\ OtherItems(store', ret'.ids) = {}
                       => ret'.count_after = ret.count_after
        /\ \A t \in Threads :
              ( /\ tasks[t].pc = "write"
                /\ tasks[t].own
                /\ tasks'[t].pc = "count" )
              => LET ids == [k \in 1..Len(chunks) |-> tasks[t].ids[k]] IN
                 /\ Len(tasks[t].ids) = Len(chunks)
                 /\ \A k \in 1..Len(chunks) : store'[ids[k]] = item(k)
                 /\ OtherItems(store', ids) = OtherItems(store, ids)
                 /\ \A id \in OtherItems(store, ids) : store'[id] = store[id]
                 /\ ((\A k \in 1..Len(ids) :
                          ids[k] \in DOMAIN store /\ store[ids[k]] = item(k))
                        => store' = store) ]_vars

\* a text of several chunks was ingested twice, another client added a
\* document meanwhile, and both responses went out: the collection holds one
\* item per chunk and the other client's item
C13_Witness ==
    /\ op = "ingest_text_again"
    /\ ~ret.raised
    /\ req.chunk_size > 0
    /\ Len(ret.ids) >= 3
    /\ Cardinality(DOMAIN store) = Len(ret.ids) + 1
    /\ ret.count_after = Len(ret.ids) + 1


\* the extractive fallback as the claim words it: of the first non-empty
\* chunk, the earliest sentence of at least 15 characters, else its first 240
\* characters (either one trimmed of surrounding whitespace)
ExtractiveFallback(context_chunks) ==
    LET chunk == usable_chunks(context_chunks, 1)[1]
        parts == SplitSentenceEnds(chunk)
        long == { k \in 1..Len(parts) : Len(Strip(parts[k])) >= FIRST_SENTENCE_MIN }
    IN  IF long # {} THEN Strip(parts[Min(long)])
        ELSE Strip(SubSeq(chunk, 1, Min({Len(chunk), FIRST_SENTENCE_CUT})))

\* the sanitized output has at least 5 characters and no leaked instruction
UsableReply(r) ==
    LET ans == CleanedReply(r) IN
    Len(ans) >= MIN_ANSWER_LEN /\ ~HasEchoPattern(ans)

\* C14: with a non-empty context chunk, generate_answer returns the
\* sanitized backend output when that output has at least 5 characters and
\* no leaked-instruction substring, and in every other case (an echo of the
\* prompt among them) the extractive fallback of the first non-empty chunk.
C14_OutputOrExtractiveFallback ==
    (Returned("generate_answer") /\ HasUsableContext(req.context_chunks))
    => IF UsableReply(req)
       THEN ret.text = CleanedReply(req)
       ELSE ret.text = ExtractiveFallback(req.context_chunks)

\* the backend echoed the prompt and the answer is the second sentence of
\* the first chunk, the first one being shorter than 15 characters
C14_Witness ==
    /\ Returned("generate_answer")
    /\ req.llm.kind = "echo"
    /\ Len(req.context_chunks) = 2
    /\ ~UsableReply(req)
    /\ ret.text = <<"O", " ", "p", "r", "a", "z", "o", " ", "e", " ", "d", "e", " ", "3", "0", " ", "d",
      "i", "a", "s", ".">>

============================================================================
